---- MODULE Spec2Model ----
(***************************************************************************)
(* Mass driver of itohio/remadr: dev.MassDriver (src/dev/drive.go)         *)
(* sequencing a list of dev.ShapedPulseStage (src/dev/drive-shaped.go),    *)
(* each with its sense-pin interrupt handler, its worker goroutine and its *)
(* PulseTrain (src/delay.go).                                              *)
(*                                                                         *)
(* Execution contexts: one external caller (Arm / Reset / Abort of the     *)
(* driver), one worker goroutine per stage (handlePulse), one interrupt    *)
(* handler per sense pin.  The interrupt handler runs to completion when   *)
(* the edge happens; the worker and the external caller are interleaved at *)
(* their accesses to shared fields.  A channel send into the full          *)
(* capacity-1 slot parks the sender; a receive from the slot hands the     *)
(* slot to the longest-parked sender and resumes it.                       *)
(***************************************************************************)
EXTENDS Integers, Sequences, FiniteSets, TLC

\* ---------------------------------------------------------------- constants

\* Number of stages of the driver as wired in examples/voltmeter/test.go
\* (a DoubleTapStage followed by a SimpleStage).
NStages == 2

\* runtime.ticksToNanoseconds of the rp2040 target: the timer counts
\* microseconds.
NsPerTick == 1000

\* The clock saturates here: ticks() values are 1..MaxTicks.
MaxTicks == 2

\* The environment produces at most this many sense-pin edges.
MaxEdges == 2

\* The external caller issues at most this many driver operations.
MaxOps == 2

Stages == 0 .. (NStages - 1)

\* Pulse shapes of the two stages, in microseconds.
Shape(i) == IF i = 0 THEN <<10, 700, 2500, 1000>> ELSE <<2000, 1000>>

States == {"Idle", "Armed", "Active", "Done", "Failed"}

VARIABLES
    dState,        \* MassDriver.state
    currentStage,  \* MassDriver.currentStage
    timestamps,    \* MassDriver.timestamps
    sState,        \* ShapedPulseStage.state, per stage
    senseStart,    \* ShapedPulseStage.senseStart (ticks)
    senseEnd,      \* ShapedPulseStage.senseEnd (ticks)
    triggerStart,  \* ShapedPulseStage.triggerStart (ns)
    triggerEnd,    \* ShapedPulseStage.triggerEnd (ns)
    t,             \* ShapedPulseStage.t: number of signals in the slot (0 or 1)
    sensePin,      \* TRUE when sense.Get() == s.val (the occupied polarity)
    triggerPin,    \* level of the trigger pin
    wpc,           \* position of each stage's worker in handlePulse
    wseg,          \* PulseTrain.Run: index i of the range loop
    wTrig,         \* PulseTrain.Run: the result variable triggerStart
    wWhen,         \* the argument `when` of the completion callback
    wState,        \* stageTriggered: local `state`
    wStage,        \* stageTriggered: local `stage`
    wR,            \* PulseTrain.Run: field r of the receiver's copy
    shapeR,        \* ShapedPulseStage.shape.r
    sendq,         \* ShapedPulseStage.t: the senders parked on the full slot
    epc,           \* position of the external caller
    ek,            \* the external caller's loop index over d.stages
    eReset,        \* stages whose Reset() the external call has completed
    now,           \* the tick counter
    edges,         \* number of sense-pin edges so far
    ops,           \* number of driver operations so far
    fired,         \* PulseTrain runs started since the stage's last Arm()
    ev,            \* what the last step did (calls made, values returned)
    aborted,       \* stages whose PulseTrain.Abort was called during the
                   \* run of PulseTrain.Run now in progress
    pt,            \* a PulseTrain on its own, its pin and its clock
    armedFrom,     \* the state a stage was in when its own Arm() was last
                   \* called by the external caller
    chr,           \* a Chronograph, its two sense pins and its clock
    cfg,           \* what ShapedPulseStage.Configure has set up
    wc,            \* the wait calibration constants and the simulated clock
    vm,            \* a VoltageMeter and what its last read returned
    qa,            \* a QuadraticApproximator and one conversion both ways
    lcr,           \* CircuitParameters and what the LCR functions returned
    md,            \* a MassDriver over stages of any implementation of
                   \* Stage, and the calls its last method made
    la,            \* a LinearApproximator fitted from two points and what
                   \* Convert returned for their codes
    dw,            \* the two atomic words of a MassDriver (state and
                   \* currentStage) and the methods in progress on them
    carried        \* stages whose worker held a received signal it had not
                   \* yet examined when the stage's last Reset() returned,
                   \* nothing else having run during that Reset()

vars == <<dState, currentStage, timestamps, sState, senseStart, senseEnd,
          triggerStart, triggerEnd, t, sensePin, triggerPin, wpc, wseg, wTrig,
          wWhen, wState, wStage, wR, shapeR, sendq, epc, ek, eReset, now,
          edges, ops, fired, ev, aborted, pt, armedFrom, chr, cfg,
          wc, vm, qa, lcr, md, la, dw, carried>>

stageVars == <<sState, senseStart, senseEnd, triggerStart, triggerEnd>>
chanVars == <<t, sendq>>
pinVars == <<sensePin, triggerPin>>
envVars == <<edges, ops>>
driverVars == <<dState, currentStage, timestamps>>
extVars == <<epc, ek, eReset>>
workerLocals == <<wseg, wTrig, wWhen, wState, wStage, wR>>

\* Variables no step of the driver, of a stage's worker or of a stage's
\* interrupt handler stores into.
auxVars == <<wc, vm, qa, lcr, md, la, dw>>
compVars == <<shapeR, pt, chr, cfg, auxVars>>
otherVars == <<compVars, armedFrom, carried>>
restVars == <<otherVars, aborted>>

\* The variables of the mass driver and its stages, but for ev.
machineVars ==
    <<driverVars, stageVars, chanVars, pinVars, wpc, workerLocals, shapeR,
      extVars, now, envVars, fired, aborted, armedFrom, carried>>

\* The variables of the driver, the pulse train, the chronograph and the
\* stage configuration, but for ev.
baseVars == <<machineVars, pt, chr, cfg>>

\* ------------------------------------------------------------------- events

\* The record of one step: op is the operation the step belongs to, by is
\* the stage whose context ran it (-1: the external caller), armed / reset /
\* ran are the stages whose Arm() / Reset() / PulseTrain.Run() the step
\* called, wrote the fields the step stored, errCb and doneCb the arguments of
\* the callbacks it invoked, ret the value an external operation returned,
\* seen the pair getState() loaded in stageTriggered or the arguments
\* (mode, pc) of a Configure.
NoEv ==
    [op |-> "none", by |-> -1, armed |-> {}, reset |-> {}, ran |-> {},
     wrote |-> {}, errCb |-> <<>>, doneCb |-> <<>>, ret |-> "none",
     seen |-> <<>>]

Event(op, by) == [NoEv EXCEPT !.op = op, !.by = by]

\* ------------------------------------------------------------------- clock

\* ticks(): the value the next read of the tick counter returns.
Ticks == IF now < MaxTicks THEN now + 1 ELSE MaxTicks

RECURSIVE Pow2(_), Gcd(_, _)

ticksToNanoseconds(tk) == tk * NsPerTick

\* Now() == ticksToNanoseconds(ticks())
Now == ticksToNanoseconds(Ticks)

\* ------------------------------------------------------------ MassDriver

\* getState(): the (state, currentStage) pair.
getState == <<dState, currentStage>>

\* setState(s, idx): the two stores; the done callback is in the actions.
setState(s, idx) ==
    /\ dState' = s
    /\ currentStage' = idx

\* setState: the callback invocation `if s == Done && d.doneCallback != nil`.
DoneCallbackOf(s) == IF s = "Done" THEN <<timestamps>> ELSE <<>>

\* Arm(): `if d.State() != Idle` rejects the call.
ArmBusyMutDoneOk == dState \notin {"Idle", "Done"}
ArmBusy == dState # "Idle"

\* Arm(): the stage armed by the driver's Arm (d.stages[0]).
FirstStageMutLast == NStages - 1
FirstStage == 0

\* ShapedPulseStage.Reset() of every stage in rs, as new field values.
ResetState(rs) == [i \in Stages |-> IF i \in rs THEN "Idle" ELSE sState[i]]
ResetZero(f, rs) == [i \in Stages |-> IF i \in rs THEN 0 ELSE f[i]]

\* Reset(): the stage whose slot `select { case <-s.t: default: }` of
\* Reset() of stage k receives from.
Drained(k) == k

\* ------------------------------------------------- the signal slot s.t
\*
\* Senders of stage c's slot: "irq" is handleInterrupt of stage c, "arm" is
\* the caller of the stage's Arm() (the external caller for stage 0, the
\* worker of stage c-1 for the others).

\* `s.t <- struct{}{}`: the slot after a send.
SlotAfterSend(c) == [t EXCEPT ![c] = 1]

\* `s.t <- struct{}{}`: the parked senders after a send by who.
QueueAfterSend(c, who) ==
    IF t[c] = 1 THEN [sendq EXCEPT ![c] = Append(@, who)] ELSE sendq

\* A receive from the slot of stage c (c outside Stages: no receive): the
\* sender it resumes, "none" when nobody is parked.
Resumed(c) ==
    IF c \in Stages /\ sendq[c] # <<>> THEN Head(sendq[c]) ELSE "none"

\* The slot and the parked senders after a receive from stage c's slot.
SlotAfterRecv(c) ==
    IF c \in Stages /\ sendq[c] = <<>> THEN [t EXCEPT ![c] = 0] ELSE t

QueueAfterRecv(c) ==
    IF c \in Stages /\ sendq[c] # <<>>
    THEN [sendq EXCEPT ![c] = Tail(@)]
    ELSE sendq

\* The positions of the workers and of the external caller after a receive
\* from stage c's slot: a resumed caller of Arm() leaves its send.
WpcAfterRecv(c, base) ==
    IF Resumed(c) = "arm" /\ c > 0
    THEN [base EXCEPT ![c - 1] = "set"]
    ELSE base

EpcAfterRecv(c, base) ==
    IF Resumed(c) = "arm" /\ c = 0 THEN "arm_ret" ELSE base

\* handleInterrupt of stage i is parked in its send.
IrqParked(i) == \E k \in 1 .. Len(sendq[i]) : sendq[i][k] = "irq"

\* NewPulseTrain(d...): a train with the durations d, not running; with
\* it the pin (low) and the clock it is run on.  rose and fell are the
\* clock values of the pin's last rise and fall, highs the pulses so far as
\* pairs (quiet time before the pulse, length of the pulse).
NewPulseTrain(d) ==
    [durations |-> d, r |-> 0, i |-> 0, pc |-> "idle", pin |-> FALSE,
     clock |-> 0, start |-> 0, triggerStart |-> 0, rose |-> 0, fell |-> 0,
     highs |-> <<>>, arg |-> <<>>]

\* The mass driver and its stages after NewMassDriver and Configure.
InitMachine ==
    /\ dState = "Idle"
    /\ currentStage = -1
    /\ timestamps = [i \in Stages |-> 0]
    /\ sState = [i \in Stages |-> "Idle"]
    /\ senseStart = [i \in Stages |-> 0]
    /\ senseEnd = [i \in Stages |-> 0]
    /\ triggerStart = [i \in Stages |-> 0]
    /\ triggerEnd = [i \in Stages |-> 0]
    /\ t = [i \in Stages |-> 0]
    /\ sensePin = [i \in Stages |-> FALSE]
    /\ triggerPin = [i \in Stages |-> FALSE]
    /\ wpc = [i \in Stages |-> "wait"]
    /\ wseg = [i \in Stages |-> 0]
    /\ wTrig = [i \in Stages |-> 0]
    /\ wWhen = [i \in Stages |-> 0]
    /\ wState = [i \in Stages |-> "Idle"]
    /\ wStage = [i \in Stages |-> -1]
    /\ wR = [i \in Stages |-> 0]
    /\ shapeR = [i \in Stages |-> 0]
    /\ sendq = [i \in Stages |-> <<>>]
    /\ epc = "idle"
    /\ ek = 0
    /\ eReset = {}
    /\ now = 0
    /\ edges = 0
    /\ ops = 0
    /\ fired = [i \in Stages |-> 0]
    /\ ev = NoEv
    /\ aborted = {}
    /\ armedFrom = [i \in Stages |-> "Idle"]
    /\ carried = {}

\* NewChronograph(a, b, distanceMM, callback): the four timestamps and val
\* have their zero values, no pin is configured and no handler is installed.
\* a and b are the levels of the two pins (TRUE: high), callback is TRUE
\* when the callback is not nil, calls counts the callback's invocations,
\* clock is the tick counter, rpc the position of Reset(), rejected is TRUE
\* when the last Configure to pass the validation returned ErrSensePin.
NewChronograph(a, b, callback) ==
    [a |-> a, b |-> b, callback |-> callback, val |-> FALSE,
     modeA |-> "none", modeB |-> "none", irqA |-> FALSE, irqB |-> FALSE,
     timeStartA |-> 0, timeEndA |-> 0, timeStartB |-> 0, timeEndB |-> 0,
     calls |-> 0, clock |-> 0, rpc |-> 0, rejected |-> FALSE]

\* NewShapedPulseStage before Configure: no pin is configured, no worker
\* runs and no handler is installed.  workers counts the goroutines started.
NewStageConfig ==
    [senseMode |-> "none", triggerMode |-> "none", workers |-> 0,
     irq |-> FALSE, val |-> FALSE]

\* WaitCalibrationK and WaitCalibrationM with their default values; cost is
\* the number of ticks one iteration of Wait's loop takes on the simulated
\* clock, calibrated is TRUE once CalibrateWait has run, wanted and actual
\* are the arguments of SetWaitCalibration.
NewWait(cost, wanted, actual) ==
    [K |-> 80339, M |-> 1000000, cost |-> cost, calibrated |-> FALSE,
     wanted |-> wanted, actual |-> actual]

\* No VoltageMeter has been made.
NoMeter ==
    [made |-> FALSE, adcs |-> <<>>, raw |-> <<>>, readings |-> <<>>,
     approximators |-> <<>>, resolution |-> 0, samples |-> 0,
     reads |-> <<>>, out |-> <<>>, panicked |-> FALSE, calls |-> 0]

NoCurve ==
    [pc |-> "none", curve |-> <<>>, code |-> 0, volts |-> <<>>, back |-> 0]

\* What DampedFrequency and TotalMagneticEnergy returned, before a call
NoFrequency == [called |-> FALSE, value |-> <<>>, err |-> "nil"]

NoEnergy == [called |-> FALSE, omegaD |-> <<>>, B |-> <<>>, err |-> "nil"]

NoCircuit == [params |-> <<>>, damped |-> NoFrequency, energy |-> NoEnergy]

\* No MassDriver over abstract stages has been made.
NoDriver == [made |-> FALSE]

\* No LinearApproximator has been fitted.
NoLine == [pc |-> "none"]

NoWords == [made |-> FALSE]

InitAux ==
    /\ wc = NewWait(1, 1, 1)
    /\ vm = NoMeter
    /\ qa = NoCurve
    /\ lcr = NoCircuit
    /\ md = NoDriver
    /\ la = NoLine /\ dw = NoWords

InitBase ==
    /\ InitMachine
    /\ pt = NewPulseTrain(Shape(0))
    /\ chr = NewChronograph(FALSE, FALSE, TRUE)
    /\ cfg = NewStageConfig

InitParts ==
    /\ chr = NewChronograph(FALSE, FALSE, TRUE)
    /\ cfg = NewStageConfig
    /\ InitAux

Init ==
    /\ InitMachine
    /\ pt = NewPulseTrain(Shape(0))
    /\ InitParts

\* -------------------------------------------------- the external caller
\*
\* Reset() of a stage is two steps, the drain of the slot and the rest (the
\* store of Idle and of the four zero timestamps): an edge interrupt or a
\* worker may run between them.  The loops over d.stages keep their index in
\* ek: a step of a loop finishes Reset() of stage ek and, when there is a
\* stage ek+1, starts Reset() of stage ek+1 with the drain.

\* The stages a loop `for i := range d.stages` visits.
ResetRange == Stages

\* The slot Reset() of stage k receives from; -1 when the loop has no
\* stage k.
DrainOf(k) == IF k \in ResetRange THEN Drained(k) ELSE -1

\* The drain that starts Reset() of stage k.
ResetDrain(k) ==
    /\ t' = SlotAfterRecv(DrainOf(k))
    /\ sendq' = QueueAfterRecv(DrainOf(k))
    /\ wpc' = WpcAfterRecv(DrainOf(k), wpc)

\* The second half of ShapedPulseStage.Reset() of stage k.
ResetRest(k) ==
    /\ sState' = ResetState({k} \cap ResetRange)
    /\ senseStart' = ResetZero(senseStart, {k} \cap ResetRange)
    /\ senseEnd' = ResetZero(senseEnd, {k} \cap ResetRange)
    /\ triggerStart' = ResetZero(triggerStart, {k} \cap ResetRange)
    /\ triggerEnd' = ResetZero(triggerEnd, {k} \cap ResetRange)
    /\ eReset' = eReset \cup ({k} \cap ResetRange)

\* MassDriver.Arm() while the driver is not Idle: reports ErrDriverBusy.
DriverArmBusy ==
    /\ epc = "idle"
    /\ ops < MaxOps
    /\ ArmBusy
    /\ ops' = ops + 1
    /\ eReset' = {}
    /\ ev' = [Event("Arm", -1) EXCEPT !.errCb = <<-1, "ErrDriverBusy">>,
                                      !.ret = "ErrDriverBusy"]
    /\ UNCHANGED <<driverVars, stageVars, chanVars, pinVars, wpc, workerLocals,
                   restVars, epc, ek, now, edges, fired>>

\* MassDriver.Arm() on an Idle driver: the check and the start of the loop
\* that resets the stages.
DriverArm ==
    /\ epc = "idle"
    /\ ops < MaxOps
    /\ ~ArmBusy
    /\ ops' = ops + 1
    /\ ResetDrain(0)
    /\ eReset' = {}
    /\ epc' = "arm"
    /\ ek' = 0
    /\ ev' = [Event("Arm", -1) EXCEPT !.reset = {0} \cap ResetRange]
    /\ UNCHANGED <<driverVars, stageVars, pinVars, workerLocals, restVars, now,
                   edges, fired>>

\* MassDriver.Arm(): the loop that resets the stages.
DriverArmReset ==
    /\ epc = "arm"
    /\ ek < NStages
    /\ ResetRest(ek)
    /\ ResetDrain(ek + 1)
    /\ ek' = ek + 1
    /\ ev' = [Event("Arm", -1) EXCEPT !.reset = {ek + 1} \cap ResetRange]
    /\ UNCHANGED <<driverVars, pinVars, workerLocals, restVars, epc, now,
                   envVars, fired>>

\* MassDriver.Arm(): d.setState(Armed, 0) and the store of Armed that begins
\* d.stages[0].Arm().
DriverArmSet ==
    /\ epc = "arm"
    /\ ek = NStages
    /\ setState("Armed", FirstStage)
    /\ sState' = [sState EXCEPT ![FirstStage] = "Armed"]
    /\ fired' = [fired EXCEPT ![FirstStage] = 0]
    /\ epc' = "arm_pin"
    /\ ev' = [Event("Arm", -1) EXCEPT !.armed = {FirstStage}]
    /\ UNCHANGED <<timestamps, senseStart, senseEnd, triggerStart, triggerEnd,
                   chanVars, pinVars, wpc, workerLocals, restVars, ek, eReset,
                   now, envVars>>

\* ShapedPulseStage.Arm() after its setState(Armed): `s.sense.Get() == s.val`.
ArmSenses(j) == sensePin[j]

\* ShapedPulseStage.Arm(): the store of senseStart and the send `s.t <- ...`
\* for stage j.
ArmSense(j) ==
    IF ArmSenses(j)
    THEN /\ senseStart' = [senseStart EXCEPT ![j] = Ticks]
         /\ now' = Ticks
         /\ t' = SlotAfterSend(j)
         /\ sendq' = QueueAfterSend(j, "arm")
    ELSE UNCHANGED <<senseStart, now, t, sendq>>

\* The caller's next position: sent, or parked when the slot is full.
ArmSenseNext(j, sent, parked) ==
    IF ArmSenses(j) /\ t[j] = 1 THEN parked ELSE sent

ArmSenseWrote(j) == IF ArmSenses(j) THEN {<<"senseStart", j>>} ELSE {}

\* MassDriver.Arm(): the rest of d.stages[0].Arm() and, unless the send
\* parks, `return nil`.
DriverArmSense ==
    /\ epc = "arm_pin"
    /\ ArmSense(FirstStage)
    /\ epc' = ArmSenseNext(FirstStage, "idle", "arm_send")
    /\ ev' = [Event("Arm", -1) EXCEPT
                !.wrote = ArmSenseWrote(FirstStage),
                !.ret = IF epc' = "idle" THEN "nil" ELSE "none"]
    /\ UNCHANGED <<driverVars, sState, senseEnd, triggerStart, triggerEnd,
                   pinVars, wpc, workerLocals, restVars, ek, eReset, envVars,
                   fired>>

\* MassDriver.Arm(): `return nil` once the parked send was resumed.
DriverArmReturn ==
    /\ epc = "arm_ret"
    /\ epc' = "idle"
    /\ ev' = [Event("Arm", -1) EXCEPT !.ret = "nil"]
    /\ UNCHANGED <<driverVars, stageVars, chanVars, pinVars, wpc, workerLocals,
                   restVars, ek, eReset, now, envVars, fired>>

\* MassDriver.Reset(): `d.timestamps[0] = 0` in the loop body.
ResetTimestamps == [timestamps EXCEPT ![0] = 0]

\* MassDriver.Reset(): d.setState(Idle, -1) and the start of the loop.
DriverReset ==
    /\ epc = "idle"
    /\ ops < MaxOps
    /\ ops' = ops + 1
    /\ setState("Idle", -1)
    /\ ResetDrain(0)
    /\ eReset' = {}
    /\ epc' = "reset"
    /\ ek' = 0
    /\ ev' = [Event("Reset", -1) EXCEPT !.reset = {0} \cap ResetRange]
    /\ UNCHANGED <<timestamps, stageVars, pinVars, workerLocals, restVars, now,
                   edges, fired>>

\* MassDriver.Reset(): an iteration of the loop; the last one returns.
DriverResetStep ==
    /\ epc = "reset"
    /\ ResetRest(ek)
    /\ ResetDrain(ek + 1)
    /\ timestamps' = ResetTimestamps
    /\ ek' = ek + 1
    /\ epc' = IF ek + 1 < NStages THEN "reset" ELSE "idle"
    /\ ev' = [Event("Reset", -1) EXCEPT
                !.reset = {ek + 1} \cap ResetRange,
                !.wrote = {<<"timestamps", 0>>},
                !.ret = IF ek + 1 < NStages THEN "none" ELSE "nil"]
    /\ UNCHANGED <<dState, currentStage, pinVars, workerLocals, restVars, now,
                   envVars, fired>>

\* MassDriver.Abort(): d.setState(Idle, -1) and the start of the loop.
DriverAbort ==
    /\ epc = "idle"
    /\ ops < MaxOps
    /\ ops' = ops + 1
    /\ setState("Idle", -1)
    /\ ResetDrain(0)
    /\ eReset' = {}
    /\ epc' = "abort"
    /\ ek' = 0
    /\ ev' = [Event("Abort", -1) EXCEPT !.reset = {0} \cap ResetRange]
    /\ UNCHANGED <<timestamps, stageVars, pinVars, workerLocals, restVars, now,
                   edges, fired>>

\* MassDriver.Abort(): an iteration of the loop; the last one returns.
DriverAbortStep ==
    /\ epc = "abort"
    /\ ResetRest(ek)
    /\ ResetDrain(ek + 1)
    /\ ek' = ek + 1
    /\ epc' = IF ek + 1 < NStages THEN "abort" ELSE "idle"
    /\ ev' = [Event("Abort", -1) EXCEPT
                !.reset = {ek + 1} \cap ResetRange,
                !.ret = IF ek + 1 < NStages THEN "none" ELSE "nil"]
    /\ UNCHANGED <<driverVars, pinVars, workerLocals, restVars, now, envVars,
                   fired>>

\* ------------------------------------------------ the interrupt handler

\* handleInterrupt: the two early returns.
HandlerIgnoresMutTimesOnly(i) == ~(senseStart[i] = 0 \/ senseEnd[i] = 0)
HandlerIgnores(i) ==
    \/ sState[i] \notin {"Armed", "Active", "Done"}
    \/ ~(senseStart[i] = 0 \/ senseEnd[i] = 0)

\* abortPulse of stage i: the stage, when its worker is inside
\* PulseTrain.Run.
AbortedRun(i) == IF wpc[i] \in {"run", "high"} THEN {i} ELSE {}

\* A sense-pin edge of stage i and the run of handleInterrupt it causes
\* (the handler of a pin is not re-entered while it is parked).  occ is
\* pin.Get() == s.val after the edge.
HandleEdge(i) ==
    /\ ~IrqParked(i)
    /\ edges' = edges + 1
    /\ sensePin' = [sensePin EXCEPT ![i] = ~sensePin[i]]
    /\ LET occ == ~sensePin[i] IN
       IF HandlerIgnores(i)
       THEN /\ ev' = Event("handleInterrupt", i)
            /\ UNCHANGED <<senseStart, senseEnd, chanVars, triggerPin, now,
                           aborted>>
       ELSE IF occ
       THEN /\ senseStart' = [senseStart EXCEPT ![i] = Ticks]
            /\ now' = Ticks
            /\ t' = SlotAfterSend(i)
            /\ sendq' = QueueAfterSend(i, "irq")
            /\ ev' = [Event("handleInterrupt", i) EXCEPT
                        !.wrote = {<<"senseStart", i>>}]
            /\ UNCHANGED <<senseEnd, triggerPin, aborted>>
       ELSE /\ senseEnd' = [senseEnd EXCEPT ![i] = Ticks]
            /\ now' = Ticks
            \* abortPulse: PulseTrain.Abort drives the pin low and stores 1
            \* into the r of its own copy of the train.
            /\ triggerPin' = [triggerPin EXCEPT ![i] = FALSE]
            /\ aborted' = aborted \cup AbortedRun(i)
            /\ ev' = [Event("handleInterrupt", i) EXCEPT
                        !.wrote = {<<"senseEnd", i>>}]
            /\ UNCHANGED <<senseStart, chanVars>>
    /\ UNCHANGED <<driverVars, sState, triggerStart, triggerEnd, wpc,
                   workerLocals, otherVars, extVars, ops, fired>>

\* A sense-pin edge of a stage of the driver.
Edge(i) ==
    /\ edges < MaxEdges
    /\ HandleEdge(i)

\* ------------------------------------------------------------ the worker

\* handlePulse: `for range s.t` receives a signal.
WRecv(i) ==
    /\ wpc[i] = "wait"
    /\ t[i] = 1
    /\ t' = SlotAfterRecv(i)
    /\ sendq' = QueueAfterRecv(i)
    /\ wpc' = WpcAfterRecv(i, [wpc EXCEPT ![i] = "check"])
    /\ epc' = EpcAfterRecv(i, epc)
    /\ ev' = Event("handlePulse", i)
    /\ UNCHANGED <<driverVars, stageVars, pinVars, workerLocals, restVars, ek,
                   eReset, now, envVars, fired>>

\* handlePulse: `if s.getState() != Armed { continue }`.
WorkerSkipsMutIdleOnly(i) == sState[i] = "Idle"
WorkerSkips(i) == sState[i] # "Armed"

WCheck(i) ==
    /\ wpc[i] = "check"
    /\ wpc' = [wpc EXCEPT ![i] = IF WorkerSkips(i) THEN "wait" ELSE "setActive"]
    /\ carried' = carried \ {i}
    /\ ev' = Event("handlePulse", i)
    /\ UNCHANGED <<driverVars, stageVars, chanVars, pinVars, workerLocals,
                   compVars, armedFrom, aborted, extVars, now, envVars, fired>>

\* handlePulse: s.setState(Active) and the entry of s.shape.Run(s.trigger),
\* which stores 1 into the r of its copy of the train.
WSetActive(i) ==
    /\ wpc[i] = "setActive"
    /\ sState' = [sState EXCEPT ![i] = "Active"]
    /\ wR' = [wR EXCEPT ![i] = 1]
    /\ wseg' = [wseg EXCEPT ![i] = 0]
    /\ wTrig' = [wTrig EXCEPT ![i] = 0]
    /\ wpc' = [wpc EXCEPT ![i] = "run"]
    /\ fired' = [fired EXCEPT ![i] = IF @ < 2 THEN @ + 1 ELSE @]
    /\ aborted' = aborted \ {i}
    /\ ev' = [Event("handlePulse", i) EXCEPT !.ran = {i}]
    /\ UNCHANGED <<driverVars, senseStart, senseEnd, triggerStart, triggerEnd,
                   chanVars, pinVars, wWhen, wState, wStage, otherVars, extVars,
                   now, envVars>>

\* PulseTrain.Run: one iteration of the loop up to p.High() (odd i) or the
\* whole quiet iteration (even i).  wseg is 0-based like the loop's i.
WRunSeg(i) ==
    /\ wpc[i] = "run"
    /\ wseg[i] < Len(Shape(i))
    /\ IF wR[i] = 0
       THEN \* return triggerStart
            /\ wseg' = [wseg EXCEPT ![i] = Len(Shape(i))]
            /\ UNCHANGED <<wpc, wTrig, now, triggerPin>>
       ELSE IF wseg[i] % 2 = 0
       THEN \* WaitCalibrated(t); continue
            /\ wseg' = [wseg EXCEPT ![i] = @ + 1]
            /\ UNCHANGED <<wpc, wTrig, now, triggerPin>>
       ELSE /\ IF wseg[i] = 1
               THEN wTrig' = [wTrig EXCEPT ![i] = Now] /\ now' = Ticks
               ELSE UNCHANGED <<wTrig, now>>
            /\ triggerPin' = [triggerPin EXCEPT ![i] = TRUE]
            /\ wpc' = [wpc EXCEPT ![i] = "high"]
            /\ UNCHANGED wseg
    /\ ev' = Event("Run", i)
    /\ UNCHANGED <<driverVars, stageVars, chanVars, sensePin, wWhen, wState,
                   wStage, wR, restVars, extVars, envVars, fired>>

\* PulseTrain.Run: WaitCalibrated(t); p.Low() of an odd iteration.
WRunLow(i) ==
    /\ wpc[i] = "high"
    /\ triggerPin' = [triggerPin EXCEPT ![i] = FALSE]
    /\ wseg' = [wseg EXCEPT ![i] = @ + 1]
    /\ wpc' = [wpc EXCEPT ![i] = "run"]
    /\ ev' = Event("Run", i)
    /\ UNCHANGED <<driverVars, stageVars, chanVars, sensePin, wTrig, wWhen,
                   wState, wStage, wR, restVars, extVars, now, envVars, fired>>

\* handlePulse: Run returned; s.triggerStart, s.triggerEnd = Now() and the
\* argument of onComplete, ticksToNanoseconds(senseStart).
WRunEnd(i) ==
    /\ wpc[i] = "run"
    /\ wseg[i] = Len(Shape(i))
    /\ triggerStart' = [triggerStart EXCEPT ![i] = wTrig[i]]
    /\ triggerEnd' = [triggerEnd EXCEPT ![i] = Now]
    /\ now' = Ticks
    /\ wWhen' = [wWhen EXCEPT ![i] = ticksToNanoseconds(senseStart[i])]
    /\ wpc' = [wpc EXCEPT ![i] = "cb"]
    /\ ev' = Event("handlePulse", i)
    /\ UNCHANGED <<driverVars, sState, senseStart, senseEnd, chanVars, pinVars,
                   wseg, wTrig, wState, wStage, wR, restVars, extVars, envVars,
                   fired>>

\* ------------------------------------------------------- stageTriggered

\* stageTriggered(stageIdx): the three checks that end in setState(Failed).
MismatchMutStateOnly(stageIdx) ==
    LET state == getState[1]
        stage == getState[2]
    IN \/ stage = 0 /\ state # "Armed"
       \/ stage # 0 /\ state # "Active"
Mismatch(stageIdx) ==
    LET state == getState[1]
        stage == getState[2]
    IN \/ stage # stageIdx
       \/ stage = 0 /\ state # "Armed"
       \/ stage # 0 /\ state # "Active"

\* stageTriggered: `stage = stageIdx + 1`.
NextStageMutSkip(stageIdx) == stageIdx + 2
NextStage(stageIdx) == stageIdx + 1

\* The completion callback installed by MassDriver.Configure runs
\* stageTriggered(i): the checks, then either setState(Failed, i), or the
\* store of Armed by d.stages[stage].Arm(), or `state = Done`.
WCallback(i) ==
    /\ wpc[i] = "cb"
    /\ IF Mismatch(i)
       THEN /\ setState("Failed", i)
            /\ wpc' = [wpc EXCEPT ![i] = "ts"]
            /\ ev' = [Event("stageTriggered", i) EXCEPT !.seen = getState]
            /\ UNCHANGED <<sState, wState, wStage, fired>>
       ELSE IF NextStage(i) < NStages
       THEN /\ sState' = [sState EXCEPT ![NextStage(i)] = "Armed"]
            /\ fired' = [fired EXCEPT ![NextStage(i)] = 0]
            /\ wState' = [wState EXCEPT ![i] = "Active"]
            /\ wStage' = [wStage EXCEPT ![i] = NextStage(i)]
            /\ wpc' = [wpc EXCEPT ![i] = "armpin"]
            /\ ev' = [Event("stageTriggered", i) EXCEPT
                        !.armed = {NextStage(i)}, !.seen = getState]
            /\ UNCHANGED <<dState, currentStage>>
       ELSE /\ wState' = [wState EXCEPT ![i] = "Done"]
            /\ wStage' = [wStage EXCEPT ![i] = NextStage(i)]
            /\ wpc' = [wpc EXCEPT ![i] = "set"]
            /\ ev' = [Event("stageTriggered", i) EXCEPT !.seen = getState]
            /\ UNCHANGED <<dState, currentStage, sState, fired>>
    /\ UNCHANGED <<timestamps, senseStart, senseEnd, triggerStart, triggerEnd,
                   chanVars, pinVars, wseg, wTrig, wWhen, wR, restVars, extVars,
                   now, envVars>>

\* stageTriggered: the rest of d.stages[stage].Arm() (it returns nil).
WArmSense(i) ==
    /\ wpc[i] = "armpin"
    /\ ArmSense(wStage[i])
    /\ wpc' = [wpc EXCEPT ![i] = ArmSenseNext(wStage[i], "set", "armsend")]
    /\ ev' = [Event("stageTriggered", i) EXCEPT
                !.wrote = ArmSenseWrote(wStage[i])]
    /\ UNCHANGED <<driverVars, sState, senseEnd, triggerStart, triggerEnd,
                   pinVars, workerLocals, restVars, extVars, envVars, fired>>

\* stageTriggered: the final d.setState(state, stage), with the done callback.
WSet(i) ==
    /\ wpc[i] = "set"
    /\ setState(wState[i], wStage[i])
    /\ wpc' = [wpc EXCEPT ![i] = "ts"]
    /\ ev' = [Event("stageTriggered", i) EXCEPT
                !.doneCb = DoneCallbackOf(wState[i])]
    /\ UNCHANGED <<timestamps, stageVars, chanVars, pinVars, workerLocals,
                   restVars, extVars, now, envVars, fired>>

\* The completion callback after stageTriggered: `c.timestamps[i] = when`.
WTimestamp(i) ==
    /\ wpc[i] = "ts"
    /\ timestamps' = [timestamps EXCEPT ![i] = wWhen[i]]
    /\ wpc' = [wpc EXCEPT ![i] = "sdone"]
    /\ ev' = [Event("onComplete", i) EXCEPT !.wrote = {<<"timestamps", i>>}]
    /\ UNCHANGED <<dState, currentStage, stageVars, chanVars, pinVars,
                   workerLocals, restVars, extVars, now, envVars, fired>>

\* handlePulse: s.setState(Done), back to the receive.
WSetDone(i) ==
    /\ wpc[i] = "sdone"
    /\ sState' = [sState EXCEPT ![i] = "Done"]
    /\ wpc' = [wpc EXCEPT ![i] = "wait"]
    /\ ev' = Event("handlePulse", i)
    /\ UNCHANGED <<driverVars, senseStart, senseEnd, triggerStart, triggerEnd,
                   chanVars, pinVars, workerLocals, restVars, extVars, now,
                   envVars, fired>>

\* ------------------------------------------------------- specification

Next ==
    \/ DriverArmBusy
    \/ DriverArm
    \/ DriverArmReset
    \/ DriverArmSet
    \/ DriverArmSense
    \/ DriverArmReturn
    \/ DriverReset
    \/ DriverResetStep
    \/ DriverAbort
    \/ DriverAbortStep
    \/ \E i \in Stages : Edge(i)
    \/ \E i \in Stages : WRecv(i)
    \/ \E i \in Stages : WCheck(i)
    \/ \E i \in Stages : WSetActive(i)
    \/ \E i \in Stages : WRunSeg(i)
    \/ \E i \in Stages : WRunLow(i)
    \/ \E i \in Stages : WRunEnd(i)
    \/ \E i \in Stages : WCallback(i)
    \/ \E i \in Stages : WArmSense(i)
    \/ \E i \in Stages : WSet(i)
    \/ \E i \in Stages : WTimestamp(i)
    \/ \E i \in Stages : WSetDone(i)

Spec == Init /\ [][Next]_vars

TypeOK ==
    /\ dState \in States
    /\ currentStage \in -1 .. NStages
    /\ \A i \in Stages : sState[i] \in States /\ t[i] \in 0 .. 1
    /\ \A i \in Stages : Len(sendq[i]) <= 2 /\ (sendq[i] # <<>> => t[i] = 1)

\* ------------------------------------------------- a stage on its own
\*
\* One ShapedPulseStage used through its own interface: an external caller
\* calls Arm() and Reset() of the stage, the completion callback is the
\* caller's onComplete.

\* The stage.
Lone == 0

\* The caller calls at most MaxStageOps operations of the stage, the
\* environment produces at most MaxStageEdges edges of its sense pin.
MaxStageOps == 3
MaxStageEdges == 3

\* ShapedPulseStage.Arm(): s.setState(Armed).
StageArm ==
    /\ epc = "idle"
    /\ ops < MaxStageOps
    /\ ops' = ops + 1
    /\ sState' = [sState EXCEPT ![Lone] = "Armed"]
    /\ fired' = [fired EXCEPT ![Lone] = 0]
    /\ epc' = "arm_pin"
    /\ armedFrom' = [armedFrom EXCEPT ![Lone] = sState[Lone]]
    /\ ev' = [Event("Stage.Arm", -1) EXCEPT !.armed = {Lone}]
    /\ UNCHANGED <<driverVars, senseStart, senseEnd, triggerStart, triggerEnd,
                   chanVars, pinVars, wpc, workerLocals, compVars, aborted,
                   carried,
                   ek, eReset, now, edges>>

\* ShapedPulseStage.Arm(): the read of the sense pin, the store of
\* senseStart and the send; `return nil` unless the send parks.
StageArmSense ==
    /\ epc = "arm_pin"
    /\ ArmSense(Lone)
    /\ epc' = ArmSenseNext(Lone, "idle", "arm_send")
    /\ ev' = [Event("Stage.Arm", -1) EXCEPT
                !.wrote = ArmSenseWrote(Lone),
                !.ret = IF epc' = "idle" THEN "nil" ELSE "none"]
    /\ UNCHANGED <<driverVars, sState, senseEnd, triggerStart, triggerEnd,
                   pinVars, wpc, workerLocals, restVars, ek, eReset, envVars,
                   fired>>

\* ShapedPulseStage.Arm(): `return nil` once the parked send was resumed.
StageArmReturn ==
    /\ epc = "arm_ret"
    /\ epc' = "idle"
    /\ ev' = [Event("Stage.Arm", -1) EXCEPT !.ret = "nil"]
    /\ UNCHANGED <<driverVars, stageVars, chanVars, pinVars, wpc, workerLocals,
                   restVars, ek, eReset, now, envVars, fired>>

\* ShapedPulseStage.Reset(): the drain of the slot.
StageReset ==
    /\ epc = "idle"
    /\ ops < MaxStageOps
    /\ ops' = ops + 1
    /\ ResetDrain(Lone)
    /\ epc' = "reset"
    /\ ev' = [Event("Stage.Reset", -1) EXCEPT !.reset = {Lone}]
    /\ UNCHANGED <<driverVars, stageVars, pinVars, workerLocals, restVars, ek,
                   eReset, now, edges, fired>>

\* ShapedPulseStage.Reset(): the store of Idle and of the zero timestamps.
StageResetRest ==
    /\ epc = "reset"
    /\ ResetRest(Lone)
    /\ epc' = "idle"
    /\ carried' = IF ev.op = "Stage.Reset" /\ wpc[Lone] = "check"
                  THEN {Lone} ELSE {}
    /\ ev' = [Event("Stage.Reset", -1) EXCEPT !.ret = "nil"]
    /\ UNCHANGED <<driverVars, chanVars, pinVars, wpc, workerLocals, compVars,
                   armedFrom, aborted, ek, now, envVars, fired>>

\* A sense-pin edge of the stage.
StageEdge ==
    /\ edges < MaxStageEdges
    /\ HandleEdge(Lone)

\* handlePulse: `onComplete(...)`, the caller's callback.
WOnComplete(i) ==
    /\ wpc[i] = "cb"
    /\ wpc' = [wpc EXCEPT ![i] = "sdone"]
    /\ ev' = [Event("onComplete", i) EXCEPT !.doneCb = <<wWhen[i]>>]
    /\ UNCHANGED <<driverVars, stageVars, chanVars, pinVars, workerLocals,
                   restVars, extVars, now, envVars, fired>>

StageWorker ==
    \/ WRecv(Lone)
    \/ WCheck(Lone)
    \/ WSetActive(Lone)
    \/ WRunSeg(Lone)
    \/ WRunLow(Lone)
    \/ WRunEnd(Lone)
    \/ WOnComplete(Lone)
    \/ WSetDone(Lone)

NextStageSpec ==
    \/ StageArm
    \/ StageArmSense
    \/ StageArmReturn
    \/ StageReset
    \/ StageResetRest
    \/ StageEdge
    \/ StageWorker

SpecStage == Init /\ [][NextStageSpec]_vars

\* The worker goroutine is scheduled whenever it can take a step; nothing
\* obliges the caller or the sense pin to act.
SpecStageFair == SpecStage /\ WF_vars(StageWorker)

\* --------------------------------------------------- a pulse train
\*
\* A ShapedPulseStage's shape: SetShape, Shape and PulseTrain.Run on the
\* stage's trigger pin, with nothing running beside it.  Durations are in
\* clock units; WaitCalibrated(t) is calibrated: it returns t units later.

\* Durations are drawn from 1 .. MaxDuration, shapes have up to MaxShapeLen
\* entries, a run starts at a clock value up to MaxStart.
MaxDuration == 2
MaxShapeLen == 4
MaxStart == 1

RECURSIVE SeqsOfLen(_)
SeqsOfLen(n) ==
    IF n = 0
    THEN {<<>>}
    ELSE {Append(q, d) : q \in SeqsOfLen(n - 1), d \in 1 .. MaxDuration}

\* The arguments of SetShape.
Shapes == UNION {SeqsOfLen(n) : n \in 0 .. MaxShapeLen}

\* SetShape: `len(shape) < 2 || len(shape)%2 != 0`.
InvalidShapeMutOddOnly(shape) == Len(shape) % 2 # 0
InvalidShape(shape) == Len(shape) < 2 \/ Len(shape) % 2 # 0

\* NewShapedPulseStage(trigger, sense, shape...): SetShape(shape) must have
\* succeeded, else the constructor panics.
InitTrain ==
    /\ InitMachine
    /\ \E d \in Shapes : ~InvalidShape(d) /\ pt = NewPulseTrain(d)
    /\ InitParts

\* ShapedPulseStage.Shape(): s.shape.Durations().
Durations == pt.durations

\* ShapedPulseStage.SetShape(shape).
SetShape(shape) ==
    /\ pt.pc = "idle"
    /\ IF InvalidShape(shape)
       THEN /\ pt' = [pt EXCEPT !.arg = shape]
            /\ ev' = [Event("SetShape", -1) EXCEPT
                        !.ret = "ErrInvalidPulseTrain"]
       ELSE /\ pt' = [pt EXCEPT !.durations = shape, !.r = 0, !.arg = shape]
            /\ ev' = [Event("SetShape", -1) EXCEPT !.ret = "nil"]
    /\ UNCHANGED <<machineVars, chr, cfg, auxVars>>

\* PulseTrain.Run(p): the entry, `atomic.StoreUint32(&pt.r, 1)`, at clock
\* value start.
TrainRun(start) ==
    /\ pt.pc = "idle"
    /\ pt' = [pt EXCEPT !.r = 1, !.i = 0, !.pc = "run", !.clock = start,
                         !.start = start, !.triggerStart = 0, !.rose = start,
                         !.fell = start, !.highs = <<>>]
    /\ ev' = Event("Run", -1)
    /\ UNCHANGED <<machineVars, chr, cfg, auxVars>>

\* PulseTrain.Run: `if i%2 == 0`, the quiet segments.
IsQuietMutOdd(i) == i % 2 = 1
IsQuiet(i) == i % 2 = 0

\* PulseTrain.Run: one iteration of the loop, up to p.High() for an active
\* segment.  pt.i is the loop's i, pt.durations[pt.i + 1] its t.
TrainSeg ==
    /\ pt.pc = "run"
    /\ pt.i < Len(pt.durations)
    /\ LET seg == pt.durations[pt.i + 1] IN
       IF pt.r = 0
       THEN pt' = [pt EXCEPT !.i = Len(pt.durations)]
       ELSE IF IsQuiet(pt.i)
       THEN pt' = [pt EXCEPT !.clock = @ + seg, !.i = @ + 1]
       ELSE pt' = [pt EXCEPT
                     !.triggerStart = IF pt.i = 1 THEN pt.clock ELSE @,
                     !.pin = TRUE, !.rose = pt.clock, !.pc = "high"]
    /\ ev' = Event("Run", -1)
    /\ UNCHANGED <<machineVars, chr, cfg, auxVars>>

\* PulseTrain.Run: WaitCalibrated(t); p.Low() of an active segment.
TrainLow ==
    /\ pt.pc = "high"
    /\ LET seg == pt.durations[pt.i + 1] IN
       pt' = [pt EXCEPT
                !.clock = @ + seg, !.pin = FALSE, !.fell = pt.clock + seg,
                !.highs = Append(@, <<pt.rose - pt.fell,
                                      pt.clock + seg - pt.rose>>),
                !.i = @ + 1, !.pc = "run"]
    /\ ev' = Event("Run", -1)
    /\ UNCHANGED <<machineVars, chr, cfg, auxVars>>

\* PulseTrain.Run: `return triggerStart`; the value returned is
\* pt.triggerStart.
TrainReturn ==
    /\ pt.pc = "run"
    /\ pt.i = Len(pt.durations)
    /\ pt' = [pt EXCEPT !.pc = "idle"]
    /\ ev' = [Event("Run", -1) EXCEPT !.ret = "triggerStart"]
    /\ UNCHANGED <<machineVars, chr, cfg, auxVars>>

NextTrain ==
    \/ \E shape \in Shapes : SetShape(shape)
    \/ \E start \in 0 .. MaxStart : TrainRun(start)
    \/ TrainSeg
    \/ TrainLow
    \/ TrainReturn

SpecTrain == InitTrain /\ [][NextTrain]_vars

\* -------------------------------------------------------------- Configure
\*
\* Configure of a stage and of a chronograph, and the chronograph's
\* handlers, Reset and SetCallback.  An interrupt handler runs to its end
\* with the edge that raised it; Reset() is four stores, and an edge may
\* arrive between any two of them.

MaxChronoEdges == 4
MaxConfigOps == 2

\* The variables no step of a Configure, of the chronograph or of its
\* caller stores into, but for pt, chr and cfg.
configFrame ==
    <<driverVars, stageVars, chanVars, pinVars, wpc, workerLocals, shapeR,
      extVars, now, edges, fired, aborted, armedFrom, carried>>

\* machine.PinMode and machine.PinChange.
PinModes == {"PinInput", "PinInputPulldown", "PinInputPullup", "PinOutput"}
PinChanges == {"PinRising", "PinFalling", "PinToggle"}

\* `mode != machine.PinInput && mode != machine.PinInputPulldown &&
\*  mode != machine.PinInputPullup`
InvalidModeMutPlainOnly(mode) == mode # "PinInput"
InvalidMode(mode) ==
    mode # "PinInput" /\ mode # "PinInputPulldown" /\ mode # "PinInputPullup"

\* The value Configure returns before it touches anything, "nil" when it
\* goes on.
ConfigureCheck(mode, pc) ==
    IF InvalidMode(mode) THEN "ErrInvalidPinMode"
    ELSE IF pc = "PinToggle" THEN "ErrInvalidPinChange"
    ELSE "nil"

\* ShapedPulseStage.Configure(mode, pc, onComplete).
StageConfigure(mode, pc) ==
    /\ chr.rpc = 0
    /\ ops < MaxConfigOps
    /\ ops' = ops + 1
    /\ LET err == ConfigureCheck(mode, pc) IN
       /\ IF err # "nil"
          THEN cfg' = cfg
          ELSE cfg' = [cfg EXCEPT !.senseMode = mode,
                                  !.triggerMode = "PinOutput",
                                  !.workers = @ + 1,
                                  !.val = (pc = "PinRising"),
                                  !.irq = TRUE]
       /\ ev' = [Event("Stage.Configure", -1) EXCEPT
                   !.ret = err, !.seen = <<mode, pc>>]
    /\ UNCHANGED <<configFrame, pt, chr, auxVars>>

\* `c.a.Get() == c.val || c.b.Get() == c.val` with c.val = val.
SensesMutAOnly(c, val) == c.a = val
Senses(c, val) == c.a = val \/ c.b = val

\* Chronograph.Configure(mode, pc).
ChronoConfigure(mode, pc) ==
    /\ chr.rpc = 0
    /\ ops < MaxConfigOps
    /\ ops' = ops + 1
    /\ LET err == ConfigureCheck(mode, pc)
           val == (pc = "PinRising")
           conf == [chr EXCEPT !.modeA = mode, !.modeB = mode, !.val = val]
           call == [Event("Chronograph.Configure", -1) EXCEPT
                      !.seen = <<mode, pc>>]
       IN
       IF err # "nil"
       THEN /\ chr' = chr
            /\ ev' = [call EXCEPT !.ret = err]
       ELSE IF Senses(chr, val)
       THEN /\ chr' = [conf EXCEPT !.rejected = TRUE]
            /\ ev' = [call EXCEPT !.ret = "ErrSensePin"]
       ELSE /\ chr' = [conf EXCEPT !.irqA = TRUE, !.irqB = TRUE,
                                   !.rejected = FALSE]
            /\ ev' = [call EXCEPT !.ret = "nil"]
    /\ UNCHANGED <<configFrame, pt, cfg, auxVars>>

\* processEvent(): TRUE when the callback is invoked.
FinishedMutBOnly(c) == c.timeEndB # 0
Finished(c) == ~(c.timeEndA = 0 \/ c.timeEndB = 0)

processEvent(c) ==
    IF Finished(c) /\ c.callback THEN [c EXCEPT !.calls = @ + 1] ELSE c

\* handleA(pin) on the chronograph c, whose pin a has just changed, at tick
\* tk.
handleA(c, tk) ==
    IF ~(c.timeStartA = 0 \/ c.timeEndA = 0)
    THEN c
    ELSE IF c.a = c.val
    THEN processEvent([c EXCEPT !.timeStartA = tk])
    ELSE processEvent([c EXCEPT !.timeEndA = tk])

\* handleB(pin), likewise.
handleB(c, tk) ==
    IF ~(c.timeStartB = 0 \/ c.timeEndB = 0)
    THEN c
    ELSE IF c.b = c.val
    THEN processEvent([c EXCEPT !.timeStartB = tk])
    ELSE processEvent([c EXCEPT !.timeEndB = tk])

\* An edge on pin a: the pin changes level, and the handler runs when one
\* is installed.
ChronoEdgeA ==
    /\ chr.clock < MaxChronoEdges
    /\ LET c == [chr EXCEPT !.a = ~@, !.clock = @ + 1] IN
       IF chr.irqA
       THEN /\ chr' = handleA(c, c.clock)
            /\ ev' = Event("handleA", -1)
       ELSE /\ chr' = c
            /\ ev' = Event("edgeA", -1)
    /\ UNCHANGED <<machineVars, pt, cfg, auxVars>>

\* An edge on pin b.
ChronoEdgeB ==
    /\ chr.clock < MaxChronoEdges
    /\ LET c == [chr EXCEPT !.b = ~@, !.clock = @ + 1] IN
       IF chr.irqB
       THEN /\ chr' = handleB(c, c.clock)
            /\ ev' = Event("handleB", -1)
       ELSE /\ chr' = c
            /\ ev' = Event("edgeB", -1)
    /\ UNCHANGED <<machineVars, pt, cfg, auxVars>>

\* Chronograph.Reset(): the call and its first store.
ChronoReset ==
    /\ chr.rpc = 0
    /\ ops < MaxConfigOps
    /\ ops' = ops + 1
    /\ chr' = [chr EXCEPT !.timeStartA = 0, !.rpc = 1]
    /\ ev' = Event("Chronograph.Reset", -1)
    /\ UNCHANGED <<configFrame, pt, cfg, auxVars>>

\* Chronograph.Reset(): the second, third and fourth store, and the return.
ChronoResetStep ==
    /\ chr.rpc > 0
    /\ chr' = IF chr.rpc = 1 THEN [chr EXCEPT !.timeEndA = 0, !.rpc = 2]
              ELSE IF chr.rpc = 2 THEN [chr EXCEPT !.timeStartB = 0, !.rpc = 3]
              ELSE [chr EXCEPT !.timeEndB = 0, !.rpc = 0]
    /\ ev' = [Event("Chronograph.Reset", -1) EXCEPT
                !.ret = IF chr.rpc = 3 THEN "nil" ELSE "none"]
    /\ UNCHANGED <<machineVars, pt, cfg, auxVars>>

\* Chronograph.SetCallback(f); f is TRUE when it is not nil.
SetCallback(f) ==
    /\ chr.rpc = 0
    /\ ops < MaxConfigOps
    /\ ops' = ops + 1
    /\ chr' = [chr EXCEPT !.callback = f]
    /\ ev' = Event("SetCallback", -1)
    /\ UNCHANGED <<configFrame, pt, cfg, auxVars>>

\* The chronograph and the stage after their constructors, with the pins at
\* either level and the callback given or nil.
InitConfigure ==
    /\ InitMachine
    /\ pt = NewPulseTrain(Shape(0))
    /\ cfg = NewStageConfig
    /\ InitAux
    /\ \E a \in BOOLEAN, b \in BOOLEAN, f \in BOOLEAN :
          chr = NewChronograph(a, b, f)

NextConfigure ==
    \/ \E mode \in PinModes, pc \in PinChanges : StageConfigure(mode, pc)
    \/ \E mode \in PinModes, pc \in PinChanges : ChronoConfigure(mode, pc)
    \/ ChronoEdgeA
    \/ ChronoEdgeB
    \/ ChronoReset
    \/ ChronoResetStep
    \/ \E f \in BOOLEAN : SetCallback(f)

SpecConfigure == InitConfigure /\ [][NextConfigure]_vars

\* ---------------------------------------------------------------- IsValid

MaxStamp == 2

\* Chronograph.IsValid().
IsValidMutThree(c) ==
    \/ c.timeStartA # 0 /\ c.timeEndA # 0 /\ c.timeStartB # 0
    \/ c.timeStartA = 0 /\ c.timeEndA = 0 /\ c.timeStartB = 0 /\ c.timeEndB = 0
IsValid(c) ==
    \/ c.timeStartA # 0 /\ c.timeEndA # 0 /\ c.timeStartB # 0 /\ c.timeEndB # 0
    \/ c.timeStartA = 0 /\ c.timeEndA = 0 /\ c.timeStartB = 0 /\ c.timeEndB = 0

\* A call of IsValid(); the value it returns is in ev.ret.
CallIsValid ==
    /\ ev.op # "IsValid"
    /\ ev' = [Event("IsValid", -1) EXCEPT
                !.ret = IF IsValid(chr) THEN "true" ELSE "false"]
    /\ UNCHANGED <<machineVars, pt, chr, cfg, auxVars>>

\* A chronograph with any four timestamps.
InitValid ==
    /\ InitMachine
    /\ pt = NewPulseTrain(Shape(0))
    /\ cfg = NewStageConfig
    /\ InitAux
    /\ \E sa \in 0 .. MaxStamp, ea \in 0 .. MaxStamp,
          sb \in 0 .. MaxStamp, eb \in 0 .. MaxStamp :
          chr = [NewChronograph(FALSE, FALSE, TRUE) EXCEPT
                   !.timeStartA = sa, !.timeEndA = ea,
                   !.timeStartB = sb, !.timeEndB = eb]

NextValid == CallIsValid

SpecValid == InitValid /\ [][NextValid]_vars

\* ------------------------------------------------------- wait calibration
\*
\* Gcd, lcm, scaleConstants and SetWaitCalibration compute with int64.  The
\* model computes with signed integers of IntBits bits, the arithmetic of
\* Go at that width: a product wraps around, a quotient is truncated
\* towards zero, a remainder has the sign of the dividend.

IntBits == 15
MaxDur == 200

Pow2(n) == IF n = 0 THEN 1 ELSE 2 * Pow2(n - 1)

\* The value a signed integer of IntBits bits holds after an operation
\* whose exact result is x.
Wrap(x) == ((x + Pow2(IntBits - 1)) % Pow2(IntBits)) - Pow2(IntBits - 1)

Abs(x) == IF x < 0 THEN -x ELSE x

\* Go's a / b and a % b for b # 0.
Quo(a, b) ==
    IF (a < 0) = (b < 0) THEN Abs(a) \div Abs(b) ELSE -(Abs(a) \div Abs(b))
Rem(a, b) == a - b * Quo(a, b)

\* Gcd(a, b): `for b != 0 { a, b = b, a%b }; return a`.
Gcd(a, b) == IF b = 0 THEN a ELSE Gcd(b, Rem(a, b))

\* lcm(a, b): `a * b / Gcd(a, b)`.
lcm(a, b) == Quo(Wrap(a * b), Gcd(a, b))

\* scaleConstants(a, b): `l := lcm(a, b); return l / a, l / b`.
scaleConstants(a, b) == <<Quo(lcm(a, b), a), Quo(lcm(a, b), b)>>

\* The constants after SetWaitCalibration(wanted, actual).
Calibrated(w, wanted, actual) ==
    LET km == scaleConstants(actual, wanted) IN
    [w EXCEPT !.K = km[1], !.M = km[2], !.wanted = wanted, !.actual = actual]

\* SetWaitCalibration(wanted, actual) with the arguments drawn at the start.
SetWaitCalibration ==
    /\ ev.op = "none"
    /\ wc' = Calibrated(wc, wc.wanted, wc.actual)
    /\ ev' = [Event("SetWaitCalibration", -1) EXCEPT !.ret = "nil"]
    /\ UNCHANGED <<baseVars, vm, qa, lcr, md, la, dw>>

\* Any two positive durations as the arguments.
InitCalibration ==
    /\ InitBase
    /\ vm = NoMeter /\ qa = NoCurve /\ lcr = NoCircuit
    /\ md = NoDriver /\ la = NoLine /\ dw = NoWords
    /\ \E wanted \in 1 .. MaxDur, actual \in 1 .. MaxDur :
          wc = NewWait(1, wanted, actual)

NextCalibration == SetWaitCalibration

SpecCalibration == InitCalibration /\ [][NextCalibration]_vars

\* ------------------------------------------------------------ busy waiting
\*
\* The simulated clock: one iteration of Wait's loop takes wc.cost ticks
\* and nothing else takes time.

MaxCost == 2
MaxIterations == 5
MaxRepeat == 2
WaitStep == 500
MaxWaitSteps == 8

\* Wait(wait): the number of iterations of `for ; wait > 0; wait--`.
Iterations(wait) == IF wait > 0 THEN wait ELSE 0

\* The ticks the simulated clock advances during Wait(wait).
WaitTicks(w, wait) == Iterations(wait) * w.cost

\* BenchmarkWait(d, n): `ticksToNanoseconds(ticks()-t1) / n` after n calls
\* of Wait(d).
BenchmarkWait(w, d, n) == Quo(ticksToNanoseconds(n * WaitTicks(w, d)), n)

\* CalibrateWait(d, n).  The duration measured is a value of the integer
\* type.
CalibrateWait(d, n) ==
    /\ BenchmarkWait(wc, d, n) < Pow2(IntBits - 1)
    /\ wc' = [Calibrated(wc, d, BenchmarkWait(wc, d, n)) EXCEPT
                !.calibrated = TRUE]
    /\ ev' = [Event("CalibrateWait", -1) EXCEPT !.seen = <<d, n>>]
    /\ UNCHANGED <<baseVars, vm, qa, lcr, md, la, dw>>

\* The argument of Wait in WaitCalibrated(wait):
\* `(wait * WaitCalibrationK) / WaitCalibrationM`.
Scaled(w, wait) == Quo(Wrap(wait * w.K), w.M)

\* WaitCalibrated(wait), after a calibration.  The step records the
\* duration asked for and the duration the simulated clock measured; a
\* division by zero panics.
WaitCalibrated(wait) ==
    /\ wc.calibrated
    /\ IF wc.M = 0
       THEN ev' = [Event("WaitCalibrated", -1) EXCEPT
                     !.seen = <<wait>>, !.ret = "panic"]
       ELSE ev' = [Event("WaitCalibrated", -1) EXCEPT
                     !.seen = <<wait,
                                ticksToNanoseconds(
                                    WaitTicks(wc, Scaled(wc, wait)))>>,
                     !.ret = "nil"]
    /\ UNCHANGED <<baseVars, auxVars>>

\* The default constants and a clock of any cost per iteration.
InitWait ==
    /\ InitBase
    /\ vm = NoMeter /\ qa = NoCurve /\ lcr = NoCircuit
    /\ md = NoDriver /\ la = NoLine /\ dw = NoWords
    /\ \E cost \in 1 .. MaxCost : wc = NewWait(cost, 1, 1)

NextWait ==
    \/ \E d \in 1 .. MaxIterations, n \in 1 .. MaxRepeat : CalibrateWait(d, n)
    \/ \E k \in 0 .. MaxWaitSteps : WaitCalibrated(k * WaitStep)

SpecWait == InitWait /\ [][NextWait]_vars

\* ------------------------------------------------------------ voltage meter

MaxChannels == 2
MaxSamples == 2
MaxCode == 1
MaxReads == 2

\* The ADC pins and the approximators a meter can be made of.  Approximator
\* c is NewLinearApproximator(Slope(c), Intercept(c)); different c convert
\* every code differently.
PinIds == 1 .. MaxChannels
CurveIds == 1 .. MaxChannels
Codes == 0 .. MaxCode

Slope(c) == c + 1

Intercept(c) == c

\* (la LinearApproximator) Convert(adcValue)
ConvertLinear(c, adcValue) == Slope(c) * adcValue + Intercept(c)

SeqsUpTo(S, n) == UNION {[1 .. k -> S] : k \in 0 .. n}

RECURSIVE SumSeq(_)
SumSeq(q) == IF q = <<>> THEN 0 ELSE Head(q) + SumSeq(Tail(q))

\* What N rounds of Get() on len channels can return: reads[i][k] is the
\* k-th code of channel i.
ReadsOf(len, N) == [1 .. len -> [1 .. N -> Codes]]

\* if len(adcPins) != len(approximators)
CountsDifferMutLonger(adcPins, approximators) == Len(adcPins) > Len(approximators)

CountsDiffer(adcPins, approximators) == Len(adcPins) # Len(approximators)

\* NewVoltageMeter(reference, 12, samples, adcPins, approximators).  The
\* reference voltage is stored and never read; it is left out.
NewVoltageMeter(samples, adcPins, approximators) ==
    /\ ~vm.made
    /\ IF CountsDiffer(adcPins, approximators)
       THEN /\ vm' = vm
            /\ ev' = [Event("NewVoltageMeter", -1) EXCEPT
                          !.ret = "ErrPinApproximatorMismatch",
                          !.seen = <<adcPins, approximators>>]
       ELSE /\ vm' = [NoMeter EXCEPT
                          !.made = TRUE,
                          !.adcs = adcPins,
                          !.raw = [i \in 1 .. Len(adcPins) |-> 0],
                          !.approximators = approximators,
                          !.resolution = Pow2(12) - 1,
                          !.samples = samples]
            /\ ev' = [Event("NewVoltageMeter", -1) EXCEPT
                          !.ret = "nil",
                          !.seen = <<adcPins, approximators>>]
    /\ UNCHANGED <<baseVars, wc, qa, lcr, md, la, dw>>

\* (vm *VoltageMeter) readRaw(buf, N) when the ADCs return reads.  The sums
\* are uint32; N codes of 16 bits overflow them for no N below 65537.
readRawMutNoClear(buf, reads, N) ==
    [i \in 1 .. Len(buf) |-> buf[i] + SumSeq(SubSeq(reads[i], 1, N))]

readRaw(buf, reads, N) ==
    [i \in 1 .. Len(buf) |-> SumSeq(SubSeq(reads[i], 1, N))]

\* (vm *VoltageMeter) readVoltages(buf) on the meter m, for a buf of length
\* len.  The loop panics at its first channel when samples is 0 (integer
\* division by zero) and at channel len + 1 when buf is shorter than raw
\* (index out of range).
readVoltages(m, len, reads) ==
    LET raw == readRaw(m.raw, reads, m.samples) IN
    IF Len(raw) > 0 /\ (m.samples = 0 \/ len < Len(raw))
    THEN [m EXCEPT !.raw = raw, !.reads = reads, !.out = <<>>,
                   !.panicked = TRUE, !.calls = @ + 1]
    ELSE [m EXCEPT !.raw = raw, !.reads = reads,
                   !.out = [i \in 1 .. len |->
                               ConvertLinear(m.approximators[i],
                                             (raw[i] \div m.samples) % 65536)],
                   !.calls = @ + 1]

Usable == vm.made /\ ~vm.panicked /\ vm.calls < MaxReads

\* The buffers a caller can pass: nil, or a slice of up to one element more
\* than there are channels.
Buffers ==
    {[nil |-> TRUE, len |-> 0]} \cup
    {[nil |-> FALSE, len |-> n] : n \in 0 .. MaxChannels + 1}

\* if len(buf) > len(vm.adcs) { buf = buf[:len(vm.adcs)] }
Cut(buf) == IF buf.len > Len(vm.adcs) THEN Len(vm.adcs) ELSE buf.len

\* (vm *VoltageMeter) ReadVoltages(buf)
ReadVoltages(buf) ==
    /\ Usable
    /\ \E reads \in ReadsOf(Len(vm.adcs), vm.samples) :
           vm' = readVoltages(vm, IF buf.nil THEN Len(vm.readings)
                                  ELSE Cut(buf), reads)
    /\ ev' = [Event("ReadVoltages", -1) EXCEPT
                  !.ret = IF vm'.panicked THEN "panic" ELSE "nil",
                  !.seen = <<buf.nil, buf.len>>]
    /\ UNCHANGED <<baseVars, wc, qa, lcr, md, la, dw>>

\* (vm *VoltageMeter) Voltages()
Voltages ==
    /\ Usable
    /\ \E reads \in ReadsOf(Len(vm.adcs), vm.samples) :
           vm' = readVoltages(vm, Len(vm.readings), reads)
    /\ ev' = [Event("Voltages", -1) EXCEPT
                  !.ret = IF vm'.panicked THEN "panic" ELSE "nil"]
    /\ UNCHANGED <<baseVars, wc, qa, lcr, md, la, dw>>

\* (vm *VoltageMeter) ReadRaw(buf, N)
ReadRaw(buf, N) ==
    /\ Usable
    /\ LET into == IF buf.nil THEN vm.raw ELSE [i \in 1 .. Cut(buf) |-> 0] IN
       \E reads \in ReadsOf(Len(into), N) :
           LET got == readRaw(into, reads, N) IN
           vm' = [vm EXCEPT !.raw = IF buf.nil THEN got ELSE @,
                            !.reads = reads, !.out = got, !.calls = @ + 1]
    /\ ev' = [Event("ReadRaw", -1) EXCEPT
                  !.ret = "nil", !.seen = <<buf.nil, buf.len>>]
    /\ UNCHANGED <<baseVars, wc, qa, lcr, md, la, dw>>

\* (vm *VoltageMeter) Raw()
Raw == vm.raw

InitMeter ==
    /\ InitBase
    /\ wc = NewWait(1, 1, 1) /\ vm = NoMeter /\ qa = NoCurve /\ lcr = NoCircuit
    /\ md = NoDriver /\ la = NoLine /\ dw = NoWords

NextMeter ==
    \/ \E samples \in 0 .. MaxSamples, adcPins \in SeqsUpTo(PinIds, MaxChannels),
          approximators \in SeqsUpTo(CurveIds, MaxChannels) :
           NewVoltageMeter(samples, adcPins, approximators)
    \/ \E buf \in Buffers : ReadVoltages(buf)
    \/ Voltages
    \/ \E buf \in Buffers, N \in 0 .. MaxSamples : ReadRaw(buf, N)

SpecMeter == InitMeter /\ [][NextMeter]_vars

\* ------------------------------------------------- floating-point numbers

\* The element of a one-element set.  In The({e : v \in {d}}) the value of
\* d is computed once, however often e mentions v.
The(S) == CHOOSE v \in S : TRUE

\* Natural numbers of any size: sequences of limbs of LimbBits bits, the
\* least significant limb first, without leading zero limbs.
LimbBits == 14

Base == Pow2(LimbBits)

Limb(a, i) == IF i <= Len(a) THEN a[i] ELSE 0

RECURSIVE Trim(_)
Trim(a) ==
    The({IF x = <<>> \/ x[Len(x)] # 0 THEN x ELSE Trim(SubSeq(x, 1, Len(x) - 1)) :
         x \in {a}})

RECURSIVE FromInt(_)
FromInt(n) ==
    The({IF k = 0 THEN <<>> ELSE <<k % Base>> \o FromInt(k \div Base) : k \in {n}})

RECURSIVE AddFrom(_, _, _, _)
AddFrom(a, b, i, carry) ==
    IF i > Len(a) /\ i > Len(b)
    THEN IF carry = 0 THEN <<>> ELSE <<carry>>
    ELSE The({<<sum % Base>> \o AddFrom(a, b, i + 1, sum \div Base) :
              sum \in {Limb(a, i) + Limb(b, i) + carry}})

BAdd(a, b) == The({AddFrom(x, y, 1, 0) : x \in {a}, y \in {b}})

\* a - b for a >= b
RECURSIVE SubFrom(_, _, _, _)
SubFrom(a, b, i, borrow) ==
    IF i > Len(a)
    THEN <<>>
    ELSE The({<<d % Base>> \o SubFrom(a, b, i + 1, IF d < 0 THEN 1 ELSE 0) :
              d \in {a[i] - Limb(b, i) - borrow}})

BSub(a, b) == The({Trim(SubFrom(x, y, 1, 0)) : x \in {a}, y \in {b}})

\* -1, 0 or 1 as a < b, a = b or a > b
RECURSIVE CmpFrom(_, _, _)
CmpFrom(a, b, i) ==
    IF i = 0 THEN 0
    ELSE IF a[i] < b[i] THEN -1
    ELSE IF a[i] > b[i] THEN 1
    ELSE CmpFrom(a, b, i - 1)

BCmp(a, b) ==
    The({IF Len(x) < Len(y) THEN -1
         ELSE IF Len(x) > Len(y) THEN 1
         ELSE CmpFrom(x, y, Len(x)) : x \in {a}, y \in {b}})

\* a * k for 0 <= k <= Base
RECURSIVE MulSmallFrom(_, _, _, _)
MulSmallFrom(a, k, i, carry) ==
    IF i > Len(a)
    THEN FromInt(carry)
    ELSE The({<<p % Base>> \o MulSmallFrom(a, k, i + 1, p \div Base) :
              p \in {a[i] * k + carry}})

BMulSmall(a, k) ==
    The({IF n = 0 THEN <<>> ELSE MulSmallFrom(x, n, 1, 0) : x \in {a}, n \in {k}})

ShiftLimbs(a, n) ==
    The({IF x = <<>> THEN <<>> ELSE [i \in 1 .. n |-> 0] \o x : x \in {a}})

RECURSIVE BMul(_, _)
BMul(a, b) ==
    The({IF y = <<>>
         THEN <<>>
         ELSE BAdd(BMulSmall(x, Head(y)), ShiftLimbs(BMul(x, Tail(y)), 1)) :
         x \in {a}, y \in {b}})

\* a \div k for 0 < k <= Base: the limbs from i down, r the remainder of
\* the limbs above
RECURSIVE DivSmallFrom(_, _, _, _)
DivSmallFrom(a, k, i, r) ==
    IF i = 0
    THEN <<>>
    ELSE The({DivSmallFrom(a, k, i - 1, cur % k) \o <<cur \div k>> :
              cur \in {r * Base + a[i]}})

BDivSmall(a, k) ==
    The({Trim(DivSmallFrom(x, n, Len(x), 0)) : x \in {a}, n \in {k}})

\* a * 2^n and a \div 2^n
BShl(a, n) ==
    The({ShiftLimbs(BMulSmall(a, Pow2(k % LimbBits)), k \div LimbBits) : k \in {n}})

BShr(a, n) ==
    The({IF k \div LimbBits >= Len(x)
         THEN <<>>
         ELSE BDivSmall(SubSeq(x, k \div LimbBits + 1, Len(x)), Pow2(k % LimbBits)) :
         x \in {a}, k \in {n}})

RECURSIVE IntBitLen(_)
IntBitLen(n) == The({IF k = 0 THEN 0 ELSE 1 + IntBitLen(k \div 2) : k \in {n}})

\* The number of bits of a: the least n with a < 2^n
BitLen(a) ==
    The({IF x = <<>> THEN 0 ELSE (Len(x) - 1) * LimbBits + IntBitLen(x[Len(x)]) :
         x \in {a}})

\* Bit n of a (bit 0 is the least significant)
Bit(a, n) ==
    The({(Limb(x, k \div LimbBits + 1) \div Pow2(k % LimbBits)) % 2 :
         x \in {a}, k \in {n}})

\* Some bit of a below bit n is set
RECURSIVE AnyLimbBelow(_, _)
AnyLimbBelow(a, i) == i >= 1 /\ (Limb(a, i) # 0 \/ AnyLimbBelow(a, i - 1))

Sticky(a, n) ==
    The({\/ AnyLimbBelow(x, IF k \div LimbBits > Len(x) THEN Len(x)
                            ELSE k \div LimbBits)
         \/ Limb(x, k \div LimbBits + 1) % Pow2(k % LimbBits) # 0 :
         x \in {a}, k \in {n}})

RECURSIVE ToInt(_)
ToInt(a) ==
    The({IF x = <<>> THEN 0 ELSE Head(x) + Base * ToInt(Tail(x)) : x \in {a}})

\* The greatest digit q with q * d <= r, at or below the estimate est
RECURSIVE Digit(_, _, _)
Digit(r, d, est) ==
    The({IF BCmp(BMulSmall(d, q), r) > 0 THEN Digit(r, d, q - 1) ELSE q :
         q \in {est}})

\* The estimate of the digit r \div d from the two top limbs of r and the
\* top limb of d, for r < d * Base: never below the digit.
Estimate(r, d) ==
    The({IF est >= Base THEN Base - 1 ELSE est :
         est \in {(Limb(r, Len(d) + 1) * Base + Limb(r, Len(d))) \div d[Len(d)]}})

\* One limb of a quotient by d: st is <<the limbs of the quotient so far,
\* what is left of the dividend, the index of the limb of n to take next>>.
DivStep(st, n, d) ==
    The({The({<<<<digit>> \o st[1], BSub(r, BMulSmall(d, digit)), st[3] - 1>> :
              digit \in {Digit(r, d, Estimate(r, d))}}) :
         r \in {Trim(<<n[st[3]]>> \o st[2])}})

RECURSIVE DivFrom(_, _, _)
DivFrom(st, n, d) ==
    The({IF v[3] = 0 THEN v ELSE DivFrom(DivStep(v, n, d), n, d) : v \in {st}})

\* <<n \div d, whether the division is exact>> for d # 0: long division, one
\* limb of the quotient per step, after both are scaled for the top limb of
\* d to have its top bit set.
BDiv(n, d) ==
    The({The({The({<<Trim(st[1]), st[2] = <<>>>> :
                   st \in {DivFrom(<<<<>>, <<>>, Len(nn)>>, nn, dd)}}) :
              nn \in {BShl(x, scale)}, dd \in {BShl(y, scale)}}) :
         x \in {n}, y \in {d}, scale \in {LimbBits - IntBitLen(d[Len(d)])}})

\* floor(sqrt(h)) for an integer 0 < h < Base^2: Newton's iteration from
\* x >= sqrt(h)
RECURSIVE IntSqrtFrom(_, _)
IntSqrtFrom(h, x) ==
    The({IF y >= x THEN x ELSE IntSqrtFrom(h, y) : y \in {(x + h \div x) \div 2}})

IntSqrt(h) == The({IF k = 0 THEN 0 ELSE IntSqrtFrom(k, Base) : k \in {h}})

\* floor(sqrt(n)) by Newton's iteration from x >= sqrt(n)
RECURSIVE SqrtFrom(_, _)
SqrtFrom(n, x) ==
    The({IF BCmp(y, x) >= 0 THEN x ELSE SqrtFrom(n, y) :
         y \in {BShr(BAdd(x, BDiv(n, x)[1]), 1)}})

\* <<floor(sqrt(n)), whether n is a square>> for n # 0: the iteration
\* starts from the root of the top bits of n, rounded up.
BSqrt(n) ==
    The({The({The({<<root, BMul(root, root) = x>> : root \in {SqrtFrom(x, start)}}) :
              start \in {BShl(FromInt(IntSqrt(ToInt(BShr(x, below))) + 1),
                              below \div 2)}}) :
         x \in {n},
         below \in {IF BitLen(n) <= 2 * LimbBits - 2 THEN 0
                    ELSE 2 * ((BitLen(n) - 2 * LimbBits + 3) \div 2)}})

\* A floating-point number of the type T ("float32" or "float64") is
\* [k, s, m, e]: k is "fin", "inf" or "nan", s the sign bit, and a finite
\* number is (-1)^s * m * 2^e with m odd (m = <<>> and e = 0 for a zero).
Prec(T) == IF T = "float32" THEN 24 ELSE 53

Emin(T) == IF T = "float32" THEN -126 ELSE -1022

Emax(T) == IF T = "float32" THEN 127 ELSE 1023

NaN == [k |-> "nan", s |-> 0, m |-> <<>>, e |-> 0]

Inf(s) == [k |-> "inf", s |-> s, m |-> <<>>, e |-> 0]

Zero(s) == [k |-> "fin", s |-> s, m |-> <<>>, e |-> 0]

RECURSIVE IntTrailingZeros(_)
IntTrailingZeros(n) ==
    The({IF k % 2 = 1 THEN 0 ELSE 1 + IntTrailingZeros(k \div 2) : k \in {n}})

RECURSIVE TrailingZeros(_)
TrailingZeros(a) ==
    The({IF Head(x) = 0 THEN LimbBits + TrailingZeros(Tail(x))
         ELSE IntTrailingZeros(Head(x)) : x \in {a}})

\* (-1)^s * m * 2^e with its mantissa made odd
Canon(s, m, e) ==
    The({IF x = <<>> THEN Zero(s)
         ELSE The({[k |-> "fin", s |-> s, m |-> BShr(x, tz), e |-> e + tz] :
                   tz \in {TrailingZeros(x)}}) :
         x \in {m}})

IntMax(a, b) == IF a >= b THEN a ELSE b

\* The number of the type T nearest to (-1)^s * m * 2^e, ties to the even
\* mantissa: the mantissa keeps Prec(T) bits, fewer below the least normal
\* number, and a result beyond the greatest finite number is an infinity.
\* drop is the number of low bits the mantissa loses, q what is left of it.
Rounded(T, s, m, e, drop, q) ==
    LET up == /\ Bit(m, drop - 1) = 1
              /\ Sticky(m, drop - 1) \/ Bit(q, 0) = 1
    IN  The({IF re + BitLen(r) - 1 > Emax(T) THEN Inf(s) ELSE Canon(s, r, re) :
             r \in {IF drop <= 0 THEN m ELSE IF up THEN BAdd(q, <<1>>) ELSE q},
             re \in {IF drop <= 0 THEN e ELSE e + drop}})

Round(T, s, m, e) ==
    The({The({The({Rounded(T, s, x, y, drop, q) :
                   q \in {IF drop <= 0 THEN x ELSE BShr(x, drop)}}) :
              drop \in {IntMax(BitLen(x) - Prec(T), Emin(T) - Prec(T) + 1 - y)}}) :
         x \in {m}, y \in {e}})

\* T(n) for an integer n >= 0
FromNat(T, n) == Round(T, 0, FromInt(n), 0)

\* T(x) for a floating-point number x of either type
Conv(T, x) ==
    The({IF v.k = "fin" THEN Round(T, v.s, v.m, v.e) ELSE v : v \in {x}})

Neg(x) == The({IF v.k = "nan" THEN v ELSE [v EXCEPT !.s = 1 - @] : v \in {x}})

IsZero(x) == The({v.k = "fin" /\ v.m = <<>> : v \in {x}})

\* The exponent of the power of two just above a finite x # 0
Top(x) == The({v.e + BitLen(v.m) : v \in {x}})

\* -1, 0 or 1 as |x| < |y|, |x| = |y| or |x| > |y|, for finite x and y
CmpAbs(x, y) ==
    IF x.m = <<>> \/ y.m = <<>>
    THEN (IF x.m = <<>> THEN 0 ELSE 1) - (IF y.m = <<>> THEN 0 ELSE 1)
    ELSE The({IF tx # ty THEN (IF tx < ty THEN -1 ELSE 1)
              ELSE BCmp(BShl(x.m, x.e - e), BShl(y.m, y.e - e)) :
              tx \in {Top(x)}, ty \in {Top(y)},
              e \in {IF x.e < y.e THEN x.e ELSE y.e}})

\* -1, 0 or 1 as x < y, x = y or x > y, for x and y other than NaN
SignOf(x) == IF IsZero(x) THEN 0 ELSE 1 - 2 * x.s

Cmp(x, y) ==
    The({IF sx # sy THEN (IF sx < sy THEN -1 ELSE 1)
         ELSE IF sx = 0 THEN 0
         ELSE IF u.k = "inf" \/ v.k = "inf"
         THEN sx * ((IF u.k = "inf" THEN 1 ELSE 0) - (IF v.k = "inf" THEN 1 ELSE 0))
         ELSE sx * CmpAbs(u, v) :
         u \in {x}, v \in {y}, sx \in {SignOf(x)}, sy \in {SignOf(y)}})

\* x < y, x >= y, x > y: false when either is NaN
Lt(x, y) == \E u \in {x}, v \in {y} : u.k # "nan" /\ v.k # "nan" /\ Cmp(u, v) < 0

Ge(x, y) == \E u \in {x}, v \in {y} : u.k # "nan" /\ v.k # "nan" /\ Cmp(u, v) >= 0

Gt(x, y) == \E u \in {x}, v \in {y} : u.k # "nan" /\ v.k # "nan" /\ Cmp(u, v) > 0

\* x * y in the type T
Mul(T, x, y) ==
    The({IF u.k = "nan" \/ v.k = "nan" THEN NaN
         ELSE IF u.k = "inf" \/ v.k = "inf"
         THEN (IF IsZero(u) \/ IsZero(v) THEN NaN ELSE Inf((u.s + v.s) % 2))
         ELSE IF u.m = <<>> \/ v.m = <<>> THEN Zero((u.s + v.s) % 2)
         ELSE Round(T, (u.s + v.s) % 2, BMul(u.m, v.m), u.e + v.e) :
         u \in {x}, v \in {y}})

\* x + y for finite x # 0 and y # 0 whose leading bits are at most
\* Prec(T) + 2 places apart
AddNear(T, x, y) ==
    The({The({IF x.s = y.s THEN Round(T, x.s, BAdd(mx, my), e)
              ELSE IF c = 0 THEN Zero(0)
              ELSE IF c > 0 THEN Round(T, x.s, BSub(mx, my), e)
              ELSE Round(T, y.s, BSub(my, mx), e) :
              c \in {BCmp(mx, my)}}) :
         e \in {IF x.e < y.e THEN x.e ELSE y.e},
         mx \in {BShl(x.m, x.e - (IF x.e < y.e THEN x.e ELSE y.e))},
         my \in {BShl(y.m, y.e - (IF x.e < y.e THEN x.e ELSE y.e))}})

\* x + y in the type T, for x and y of the type T.  An operand below a
\* quarter of the last place of the other does not change the sum.
Add(T, x, y) ==
    The({IF u.k = "nan" \/ v.k = "nan" THEN NaN
         ELSE IF u.k = "inf" \/ v.k = "inf"
         THEN (IF u.k = "inf" /\ v.k = "inf" /\ u.s # v.s THEN NaN
               ELSE IF u.k = "inf" THEN u ELSE v)
         ELSE IF u.m = <<>> /\ v.m = <<>>
         THEN Zero(IF u.s = 1 /\ v.s = 1 THEN 1 ELSE 0)
         ELSE IF u.m = <<>> THEN Conv(T, v)
         ELSE IF v.m = <<>> THEN Conv(T, u)
         ELSE IF Top(u) - Top(v) > Prec(T) + 2 THEN Conv(T, u)
         ELSE IF Top(v) - Top(u) > Prec(T) + 2 THEN Conv(T, v)
         ELSE AddNear(T, u, v) :
         u \in {x}, v \in {y}})

\* x - y in the type T
Sub(T, x, y) == Add(T, x, Neg(y))

\* x / y for finite x # 0 and y # 0: at least Prec(T) + 2 bits of the
\* quotient, with one more bit set when the division left a remainder.
DivFinite(T, x, y) ==
    The({The({Round(T, (x.s + y.s) % 2,
                    BAdd(BMulSmall(qe[1], 2), IF qe[2] THEN <<>> ELSE <<1>>),
                    x.e - y.e - shift - 1) :
              qe \in {BDiv(BShl(x.m, shift), y.m)}}) :
         shift \in {IntMax(Prec(T) + 2 + BitLen(y.m) - BitLen(x.m), 0)}})

\* x / y in the type T
Div(T, x, y) ==
    The({IF u.k = "nan" \/ v.k = "nan" THEN NaN
         ELSE IF u.k = "inf"
         THEN (IF v.k = "inf" THEN NaN ELSE Inf((u.s + v.s) % 2))
         ELSE IF v.k = "inf" THEN Zero((u.s + v.s) % 2)
         ELSE IF v.m = <<>>
         THEN (IF u.m = <<>> THEN NaN ELSE Inf((u.s + v.s) % 2))
         ELSE IF u.m = <<>> THEN Zero((u.s + v.s) % 2)
         ELSE DivFinite(T, u, v) :
         u \in {x}, v \in {y}})

\* math.Sqrt(x) for a finite float64 x > 0: the root of the mantissa shifted
\* to an even exponent and to at least twice Prec + 2 bits
SqrtFinite(x) ==
    The({The({The({Round("float64", 0,
                         BAdd(BMulSmall(re[1], 2), IF re[2] THEN <<>> ELSE <<1>>),
                         (x.e - shift) \div 2 - 1) :
                   re \in {BSqrt(BShl(x.m, shift))}}) :
              shift \in {IF (x.e - least) % 2 = 0 THEN least ELSE least + 1}}) :
         least \in {IntMax(2 * (Prec("float64") + 2) - BitLen(x.m), 0)}})

\* math.Sqrt(x) for a float64 x
Sqrt(x) ==
    The({IF v.k = "nan" THEN NaN
         ELSE IF IsZero(v) THEN v
         ELSE IF v.s = 1 THEN NaN
         ELSE IF v.k = "inf" THEN v
         ELSE SqrtFinite(v) : v \in {x}})

\* The integer part of a finite x >= 0 that is below 2^31
Trunc(x) ==
    The({ToInt(IF v.e >= 0 THEN BShl(v.m, v.e) ELSE BShr(v.m, -v.e)) : v \in {x}})

\* ---------------------------------------------------- quadratic approximator

MaxAdcCode == 4095
MaxUint16 == 65535

\* type number interface { float32 | float64 }
Types == {"float32", "float64"}

\* The constant 0.5 of either type
Half == [k |-> "fin", s |-> 0, m |-> <<1>>, e |-> -1]

\* NewQuadraticApproximatorFromPoints[T](x1, y1, x2, y2, x3, y3), for codes
\* x and numbers y of the type T
NewQuadraticApproximatorFromPoints(T, x1, y1, x2, y2, x3, y3) ==
    The({The({
        LET a == Div(T,
                     Add(T, Add(T, Mul(T, tx3, Sub(T, y2, y1)),
                                   Mul(T, tx2, Sub(T, y1, y3))),
                            Mul(T, tx1, Sub(T, y3, y2))),
                     denominator)
            b == Div(T,
                     Add(T, Add(T, Mul(T, Mul(T, tx3, tx3), Sub(T, y1, y2)),
                                   Mul(T, Mul(T, tx2, tx2), Sub(T, y3, y1))),
                            Mul(T, Mul(T, tx1, tx1), Sub(T, y2, y3))),
                     denominator)
            c == Div(T,
                     Add(T, Add(T, Mul(T, Mul(T, Mul(T, tx2, tx3), Sub(T, tx2, tx3)), y1),
                                   Mul(T, Mul(T, Mul(T, tx1, tx3), Sub(T, tx3, tx1)), y2)),
                            Mul(T, Mul(T, Mul(T, tx1, tx2), Sub(T, tx1, tx2)), y3)),
                     denominator)
        IN  [T |-> T, a |-> a, b |-> b, c |-> c] :
        denominator \in
            {Mul(T, Mul(T, Sub(T, tx1, tx2), Sub(T, tx1, tx3)), Sub(T, tx2, tx3))}}) :
        tx1 \in {FromNat(T, x1)}, tx2 \in {FromNat(T, x2)}, tx3 \in {FromNat(T, x3)}})

\* (qa QuadraticApproximator[T]) Convert(adcValue)
Convert(q, adcValue) ==
    The({Add(q.T, Add(q.T, Mul(q.T, Mul(q.T, q.a, x), x), Mul(q.T, q.b, x)), q.c) :
         x \in {FromNat(q.T, adcValue)}})

\* if x1 >= 0 && (x2 < 0 || x1 < x2) { result = x1 } else { result = x2 }
ChosenMutSecond(x1, x2) == x2

Chosen(x1, x2) ==
    IF Ge(x1, Zero(0)) /\ (Lt(x2, Zero(0)) \/ Lt(x1, x2)) THEN x1 ELSE x2

\* uint16(result + 0.5) after the clamping of result: the set of the codes
\* it can be.  The conversion of a NaN to uint16 is implementation-specific.
Clamped(T, result) ==
    IF Lt(result, Zero(0)) THEN {0}
    ELSE IF Gt(result, FromNat(T, MaxUint16)) THEN {MaxUint16}
    ELSE IF result.k = "nan" THEN 0 .. MaxUint16
    ELSE {Trunc(Add(T, result, Half))}

\* The two roots of a*x^2 + b*x + c for a discriminant that is not negative,
\* and the code of the chosen one
Roots(T, a, b, c, discriminant) ==
    The({The({The({Clamped(T, result) : result \in {Chosen(x1, x2)}}) :
              x1 \in {Div(T, Add(T, Neg(b), sqrtDiscriminant),
                          Mul(T, FromNat(T, 2), a))},
              x2 \in {Div(T, Sub(T, Neg(b), sqrtDiscriminant),
                          Mul(T, FromNat(T, 2), a))}}) :
         sqrtDiscriminant \in {Conv(T, Sqrt(Conv("float64", discriminant)))}})

\* (qa QuadraticApproximator[T]) ConvertInverse(targetValue): the set of the
\* codes it can return
ConvertInverse(q, targetValue) ==
    The({The({IF Lt(discriminant, Zero(0))
              THEN (IF Lt(c, Zero(0)) THEN {MaxUint16} ELSE {0})
              ELSE Roots(q.T, q.a, q.b, c, discriminant) :
              discriminant \in
                  {Sub(q.T, Mul(q.T, q.b, q.b),
                       Mul(q.T, Mul(q.T, FromNat(q.T, 4), q.a), c))}}) :
         c \in {Sub(q.T, q.c, targetValue)}})

\* The curve through (0, 0), (2048, 5.0) and (4095, 10.0) in the type T
Fitted(T) ==
    NewQuadraticApproximatorFromPoints(T, 0, FromNat(T, 0), 2048, FromNat(T, 5),
                                       4095, FromNat(T, 10))

CallConvert ==
    /\ qa.pc = "fitted"
    /\ qa' = [qa EXCEPT !.pc = "converted", !.volts = Convert(qa.curve, qa.code)]
    /\ ev' = Event("Convert", -1)
    /\ UNCHANGED <<baseVars, wc, vm, lcr, md, la, dw>>

CallConvertInverse ==
    /\ qa.pc = "converted"
    /\ \E code \in ConvertInverse(qa.curve, qa.volts) :
           qa' = [qa EXCEPT !.pc = "inverted", !.back = code]
    /\ ev' = Event("ConvertInverse", -1)
    /\ UNCHANGED <<baseVars, wc, vm, lcr, md, la, dw>>

\* The fitted curve of either type and any code of the 12-bit range.
InitCurve ==
    /\ InitBase
    /\ wc = NewWait(1, 1, 1) /\ vm = NoMeter /\ lcr = NoCircuit
    /\ md = NoDriver /\ la = NoLine /\ dw = NoWords
    /\ \E T \in Types : \E curve \in {Fitted(T)} : \E code \in 0 .. MaxAdcCode :
           qa = [pc |-> "fitted", curve |-> curve, code |-> code,
                 volts |-> NaN, back |-> 0]

NextCurve ==
    \/ CallConvert
    \/ CallConvertInverse

SpecCurve == InitCurve /\ [][NextCurve]_vars


\* ------------------------------------------------------------- LCR circuit

MaxParam == 3
MaxUlps == 2

Float64(n) == FromNat("float64", n)

\* (cp CircuitParameters) NaturalFrequency(): 1 / math.Sqrt(cp.L*cp.C)
NaturalFrequency(cp) ==
    Div("float64", Float64(1), Sqrt(Mul("float64", cp.L, cp.C)))

\* (cp CircuitParameters) DampingFactor(): cp.R / (2 * cp.L)
DampingFactor(cp) == Div("float64", cp.R, Mul("float64", Float64(2), cp.L))

\* math.Sqrt(omega0*omega0 - alpha*alpha)
OmegaD(omega0, alpha) ==
    Sqrt(Sub("float64", Mul("float64", omega0, omega0), Mul("float64", alpha, alpha)))

\* (cp CircuitParameters) DampedFrequency(): the value and the error
DampedFrequency(cp) ==
    The({IF Ge(alpha, omega0)
         THEN [called |-> TRUE, value |-> Zero(0), err |-> "NotUnderdamped"]
         ELSE [called |-> TRUE, value |-> OmegaD(omega0, alpha), err |-> "nil"] :
         omega0 \in {NaturalFrequency(cp)}, alpha \in {DampingFactor(cp)}})

\* criticalR := 2 * math.Sqrt(params.L/params.C)
CriticalR(L, C) == Mul("float64", Float64(2), Sqrt(Div("float64", L, C)))

\* TotalMagneticEnergy(params, T): the error, and omegaD and B when there is
\* none.  The energy is 0.5 * L * i * i for i = B * exp(-alpha*T) *
\* sin(omegaD*T); math.Exp and math.Sin are not computed here.
TotalMagneticEnergy(params) ==
    The({IF Ge(params.R, criticalR)
         THEN [called |-> TRUE, omegaD |-> Zero(0), B |-> Zero(0),
               err |-> "NotUnderdamped"]
         ELSE The({[called |-> TRUE, omegaD |-> omegaD,
                    B |-> Div("float64", Div("float64", params.V0, params.L), omegaD),
                    err |-> "nil"] :
                   omegaD \in {OmegaD(Div("float64", Float64(1),
                                          Sqrt(Mul("float64", params.L, params.C))),
                                      Div("float64", params.R,
                                          Mul("float64", Float64(2), params.L)))}}) :
         criticalR \in {CriticalR(params.L, params.C)}})

CallDampedFrequency ==
    /\ lcr.params # <<>> /\ ~lcr.damped.called
    /\ lcr' = [lcr EXCEPT !.damped = DampedFrequency(lcr.params)]
    /\ ev' = Event("DampedFrequency", -1)
    /\ UNCHANGED <<baseVars, wc, vm, qa, md, la, dw>>

CallTotalMagneticEnergy ==
    /\ lcr.params # <<>> /\ ~lcr.energy.called
    /\ lcr' = [lcr EXCEPT !.energy = TotalMagneticEnergy(lcr.params)]
    /\ ev' = Event("TotalMagneticEnergy", -1)
    /\ UNCHANGED <<baseVars, wc, vm, qa, md, la, dw>>

\* The float64 k places of x above a finite x > 0 (below it for k < 0)
Near(x, k) ==
    LET places == Mul("float64", Float64(IF k < 0 THEN -k ELSE k),
                      [k |-> "fin", s |-> 0, m |-> <<1>>, e |-> Top(x) - Prec("float64")])
    IN  IF k < 0 THEN Sub("float64", x, places) ELSE Add("float64", x, places)

\* The resistances tried for L and C: those within MaxUlps places of the
\* critical resistance of the code, its half and its double
Resistances(L, C) ==
    UNION {{Near(criticalR, k) : k \in -MaxUlps .. MaxUlps}
           \cup {Mul("float64", criticalR, Half), Mul("float64", criticalR, Float64(2))} :
           criticalR \in {CriticalR(L, C)}}

\* Circuits with L and C of 1..MaxParam and V0 of 0 or 1
InitCircuit ==
    /\ InitBase
    /\ wc = NewWait(1, 1, 1) /\ vm = NoMeter /\ qa = NoCurve
    /\ md = NoDriver /\ la = NoLine /\ dw = NoWords
    /\ \E l \in 1 .. MaxParam, c \in 1 .. MaxParam, v \in 0 .. 1 :
           \E R \in Resistances(Float64(l), Float64(c)) :
               lcr = [NoCircuit EXCEPT
                         !.params = [L |-> Float64(l), C |-> Float64(c),
                                     R |-> R, V0 |-> Float64(v)]]

NextCircuit ==
    \/ CallDampedFrequency
    \/ CallTotalMagneticEnergy

SpecCircuit == InitCircuit /\ [][NextCircuit]_vars


\* ------------------------------------- MassDriver over any kind of Stage
\*
\* The methods of MassDriver with stages known only by the interface Stage:
\* Arm() of a stage returns nil or an error, Reset() returns nothing.  A
\* method runs from its call to its return; log is the sequence of the calls
\* it made on the stages and the callbacks, in order.

MaxCalls == 4

\* The values Arm() of a stage returns
StageErrors == {"nil", "ErrStage"}

\* NewMassDriver(errorCb, doneCb, stages...); errorCb and doneCb are TRUE
\* when the callback is not nil.
NewMassDriver(errorCb, doneCb) ==
    [made |-> TRUE, state |-> "Idle", currentStage |-> -1,
     errorCallback |-> errorCb, doneCallback |-> doneCb,
     op |-> "none", log |-> <<>>, ret |-> "none", calls |-> 0]

\* The call of the method op
Called(d, op) ==
    [d EXCEPT !.op = op, !.log = <<>>, !.ret = "none", !.calls = @ + 1]

\* d.setState(s, idx)
SetState(d, s, idx) ==
    [d EXCEPT !.state = s, !.currentStage = idx,
              !.log = IF s = "Done" /\ d.doneCallback
                      THEN Append(@, <<"doneCallback">>) ELSE @]

\* `if d.errorCallback != nil { d.errorCallback(idx, err) }`
ReportedMutNever(d, idx, err) == d
Reported(d, idx, err) ==
    IF d.errorCallback
    THEN [d EXCEPT !.log = Append(@, <<"errorCallback", idx, err>>)]
    ELSE d

\* `for i := range d.stages { d.stages[i].Reset() }`
StagesReset(d) ==
    [d EXCEPT !.log = @ \o [i \in 1 .. NStages |-> <<"Reset", i - 1>>]]

\* d.stages[i].Arm() returning err
StageArmed(d, i, err) == [d EXCEPT !.log = Append(@, <<"Arm", i, err>>)]

\* (d *MassDriver) Arm(), when Arm() of stage 0 returns err
ArmOf(d, err) ==
    IF d.state # "Idle"
    THEN [Reported(d, -1, "ErrDriverBusy") EXCEPT !.ret = "ErrDriverBusy"]
    ELSE LET armed == StageArmed(SetState(StagesReset(d), "Armed", 0), 0, err)
         IN  IF err # "nil"
             THEN [Reported(armed, 0, err) EXCEPT !.ret = err]
             ELSE [armed EXCEPT !.ret = "nil"]

\* stageTriggered(stageIdx): the three checks that end in
\* d.setState(Failed, stageIdx)
Rejected(d, stageIdx) ==
    LET state == IF d.currentStage = 0 THEN "Active" ELSE d.state
    IN  \/ d.currentStage # stageIdx
        \/ d.currentStage = 0 /\ d.state # "Armed"
        \/ state # "Active"

\* (d *MassDriver) stageTriggered(stageIdx), when Arm() of the next stage
\* returns err
StageTriggeredOf(d, stageIdx, err) ==
    LET state == IF d.currentStage = 0 THEN "Active" ELSE d.state
        stage == stageIdx + 1
    IN  IF Rejected(d, stageIdx) THEN SetState(d, "Failed", stageIdx)
        ELSE IF stage < NStages
        THEN SetState(StageArmed(d, stage, err),
                      IF err # "nil" THEN "Failed" ELSE state, stage)
        ELSE SetState(d, "Done", stage)

\* (d *MassDriver) Reset() and Abort(): the state and the stages
ResetOf(d) == [StagesReset(SetState(d, "Idle", -1)) EXCEPT !.ret = "nil"]

CallArm ==
    /\ md.made /\ md.calls < MaxCalls
    /\ \E err \in StageErrors : md' = ArmOf(Called(md, "Arm"), err)
    /\ ev' = Event("Arm", -1)
    /\ UNCHANGED <<baseVars, wc, vm, qa, lcr, la, dw>>

CallStageTriggered ==
    /\ md.made /\ md.calls < MaxCalls
    /\ \E stageIdx \in Stages, err \in StageErrors :
           md' = StageTriggeredOf(Called(md, "stageTriggered"), stageIdx, err)
    /\ ev' = Event("stageTriggered", -1)
    /\ UNCHANGED <<baseVars, wc, vm, qa, lcr, la, dw>>

CallReset ==
    /\ md.made /\ md.calls < MaxCalls
    /\ md' = ResetOf(Called(md, "Reset"))
    /\ ev' = Event("Reset", -1)
    /\ UNCHANGED <<baseVars, wc, vm, qa, lcr, la, dw>>

CallAbort ==
    /\ md.made /\ md.calls < MaxCalls
    /\ md' = ResetOf(Called(md, "Abort"))
    /\ ev' = Event("Abort", -1)
    /\ UNCHANGED <<baseVars, wc, vm, qa, lcr, la, dw>>

\* A driver after NewMassDriver, with either callback given or nil
InitDriver ==
    /\ InitBase
    /\ wc = NewWait(1, 1, 1) /\ vm = NoMeter /\ qa = NoCurve /\ lcr = NoCircuit
    /\ la = NoLine /\ dw = NoWords
    /\ \E errorCb \in BOOLEAN, doneCb \in BOOLEAN :
           md = NewMassDriver(errorCb, doneCb)

NextDriver ==
    \/ CallArm
    \/ CallStageTriggered
    \/ CallReset
    \/ CallAbort

SpecDriver == InitDriver /\ [][NextDriver]_vars


\* ---------------------------- the two atomic words of the MassDriver
\*
\* d.state and d.currentStage are two atomic.Int32: getState() is two loads,
\* setState() two stores, and the methods take no lock.  The external caller
\* (Arm, Reset, Abort) and the worker of each stage (stageTriggered of its
\* own index, from the callback installed by Configure) are goroutines of
\* their own; a step is one load or one store.  The stages are known by the
\* interface Stage only.

MaxWordCalls == 7

\* The goroutines: -1 is the external caller, i the worker of stage i.
Callers == -1 .. NStages - 1

\* A goroutine outside the methods of the driver
Resting == [at |-> "idle", op |-> "none", state |-> "none", stage |-> -1]

\* The driver after NewMassDriver, with a done callback.  armed is TRUE from
\* the return of an Arm() that found the driver Idle to the next call of
\* Reset() or Abort(); dones counts the invocations of the done callback
\* while armed is TRUE.
NewWords ==
    [made |-> TRUE, state |-> "Idle", currentStage |-> -1,
     call |-> [c \in Callers |-> Resting], calls |-> 0,
     armed |-> FALSE, dones |-> 0]

\* Caller c enters a method
Entering(c) == dw.made /\ dw.call[c].at = "idle" /\ dw.calls < MaxWordCalls

\* Arm(): `if d.State() != Idle { ... return ErrDriverBusy }`, and the loop
\* over the stages.
WordsArm ==
    /\ Entering(-1)
    /\ dw' = [dw EXCEPT
                !.calls = @ + 1,
                !.call[-1] = IF dw.state # "Idle" THEN Resting
                             ELSE [at |-> "store", op |-> "Arm",
                                   state |-> "Armed", stage |-> 0]]
    /\ ev' = Event("Arm", -1)
    /\ UNCHANGED <<baseVars, wc, vm, qa, lcr, md, la>>

\* Reset() and Abort(): d.setState(Idle, -1), the first store.
WordsReset ==
    /\ Entering(-1)
    /\ \E op \in {"Reset", "Abort"} :
           /\ dw' = [dw EXCEPT
                       !.calls = @ + 1,
                       !.state = "Idle",
                       !.armed = FALSE,
                       !.dones = 0,
                       !.call[-1] = [at |-> "index", op |-> op,
                                     state |-> "Idle", stage |-> -1]]
           /\ ev' = Event(op, -1)
    /\ UNCHANGED <<baseVars, wc, vm, qa, lcr, md, la>>

\* stageTriggered(stageIdx) by the worker of the stage: getState(), the load
\* of d.state.
WordsReport ==
    /\ \E stageIdx \in Stages :
           /\ Entering(stageIdx)
           /\ dw' = [dw EXCEPT
                       !.calls = @ + 1,
                       !.call[stageIdx] = [at |-> "load",
                                           op |-> "stageTriggered",
                                           state |-> dw.state, stage |-> -1]]
           /\ ev' = Event("stageTriggered", stageIdx)
    /\ UNCHANGED <<baseVars, wc, vm, qa, lcr, md, la>>

\* stageTriggered: what it will store, from the pair it loaded, when Arm() of
\* the next stage returns err.
Decided(state, stage, stageIdx, err) ==
    IF Rejected([state |-> state, currentStage |-> stage], stageIdx)
    THEN [at |-> "store", op |-> "stageTriggered",
          state |-> "Failed", stage |-> stageIdx]
    ELSE IF stageIdx + 1 < NStages
    THEN [at |-> "store", op |-> "stageTriggered",
          state |-> IF err # "nil" THEN "Failed" ELSE "Active",
          stage |-> stageIdx + 1]
    ELSE [at |-> "store", op |-> "stageTriggered",
          state |-> "Done", stage |-> stageIdx + 1]

\* stageTriggered: getState(), the load of d.currentStage, and the checks
\* up to the call of setState.
WordsLoadIndex ==
    /\ \E stageIdx \in Stages, err \in StageErrors :
           /\ dw.made /\ dw.call[stageIdx].at = "load"
           /\ dw' = [dw EXCEPT
                       !.call[stageIdx] =
                           Decided(dw.call[stageIdx].state, dw.currentStage,
                                   stageIdx, err)]
           /\ ev' = Event("stageTriggered", stageIdx)
    /\ UNCHANGED <<baseVars, wc, vm, qa, lcr, md, la>>

\* setState: d.state.Store(int32(s))
WordsStoreState ==
    /\ \E c \in Callers :
           /\ dw.made /\ dw.call[c].at = "store"
           /\ dw' = [dw EXCEPT !.state = dw.call[c].state,
                               !.call[c].at = "index"]
           /\ ev' = Event(dw.call[c].op, c)
    /\ UNCHANGED <<baseVars, wc, vm, qa, lcr, md, la>>

\* setState: d.currentStage.Store(int32(idx)) and the done callback, and
\* the rest of the method up to its return (which stores nothing into the
\* two words).
WordsStoreIndex ==
    /\ \E c \in Callers :
           /\ dw.made /\ dw.call[c].at = "index"
           /\ dw' = [dw EXCEPT !.currentStage = dw.call[c].stage,
                               !.armed = @ \/ dw.call[c].op = "Arm",
                               !.dones = IF dw.call[c].state = "Done" /\ dw.armed
                                         THEN @ + 1 ELSE @,
                               !.call[c] = Resting]
           /\ ev' = [Event(dw.call[c].op, c) EXCEPT !.ret = "nil"]
    /\ UNCHANGED <<baseVars, wc, vm, qa, lcr, md, la>>

InitWords ==
    /\ InitBase
    /\ wc = NewWait(1, 1, 1) /\ vm = NoMeter /\ qa = NoCurve /\ lcr = NoCircuit
    /\ md = NoDriver /\ la = NoLine
    /\ dw = NewWords

NextWords ==
    \/ WordsArm
    \/ WordsReset
    \/ WordsReport
    \/ WordsLoadIndex
    \/ WordsStoreState
    \/ WordsStoreIndex

SpecWords == InitWords /\ [][NextWords]_vars


\* ---------------------------------------------------- LinearApproximator
\*
\* NewLinearApproximatorFromPoints and Convert in the arithmetic of the code:
\* the codes are uint16, the voltages and the coefficients are numbers of
\* the type T.

MaxPoint == 3
CodeStep == 1365
MaxVolt == 3

\* The calibration codes tried: 0, 1365, 2730 and 4095 of the 12-bit range
PointCodes == {k * CodeStep : k \in 0 .. MaxPoint}

\* adcValue2 - adcValue1 of two uint16
SubUint16(x, y) == (x - y) % (MaxUint16 + 1)

\* NewLinearApproximatorFromPoints[T](adcValue1, voltage1, adcValue2,
\* voltage2)
NewLinearApproximatorFromPoints(T, adcValue1, voltage1, adcValue2, voltage2) ==
    The({[T |-> T, m |-> m,
          b |-> Sub(T, voltage1, Mul(T, m, FromNat(T, adcValue1)))] :
         m \in {Div(T, Sub(T, voltage2, voltage1),
                    FromNat(T, SubUint16(adcValue2, adcValue1)))}})

\* (la LinearApproximator[T]) Convert(adcValue)
LinearConvert(l, adcValue) ==
    The({Add(l.T, Mul(l.T, l.m, x), l.b) : x \in {FromNat(l.T, adcValue)}})

\* x == y of two numbers
Eq(x, y) == \E u \in {x}, v \in {y} : u.k # "nan" /\ v.k # "nan" /\ Cmp(u, v) = 0

CallNewLinearApproximatorFromPoints ==
    /\ la.pc = "points"
    /\ la' = [la EXCEPT
                !.pc = "fitted",
                !.line = NewLinearApproximatorFromPoints(
                             la.T, la.adcValue1, la.voltage1,
                             la.adcValue2, la.voltage2)]
    /\ ev' = Event("NewLinearApproximatorFromPoints", -1)
    /\ UNCHANGED <<baseVars, wc, vm, qa, lcr, md, dw>>

\* Convert of the code of either calibration point
CallLinearConvert ==
    /\ la.pc = "fitted"
    /\ la' = [la EXCEPT !.pc = "converted",
                        !.out1 = LinearConvert(la.line, la.adcValue1),
                        !.out2 = LinearConvert(la.line, la.adcValue2)]
    /\ ev' = Event("Convert", -1)
    /\ UNCHANGED <<baseVars, wc, vm, qa, lcr, md, dw>>

\* Two calibration points with distinct codes, in either order, and whole
\* voltages of either type
InitLine ==
    /\ InitBase
    /\ wc = NewWait(1, 1, 1) /\ vm = NoMeter /\ qa = NoCurve /\ lcr = NoCircuit
    /\ md = NoDriver /\ dw = NoWords
    /\ \E T \in Types, adcValue1 \in PointCodes, adcValue2 \in PointCodes,
          v1 \in 0 .. MaxVolt, v2 \in 0 .. MaxVolt :
           /\ adcValue1 # adcValue2
           /\ la = [pc |-> "points", T |-> T,
                    adcValue1 |-> adcValue1, voltage1 |-> FromNat(T, v1),
                    adcValue2 |-> adcValue2, voltage2 |-> FromNat(T, v2),
                    line |-> [T |-> T, m |-> NaN, b |-> NaN],
                    out1 |-> NaN, out2 |-> NaN]

NextLine ==
    \/ CallNewLinearApproximatorFromPoints
    \/ CallLinearConvert

SpecLine == InitLine /\ [][NextLine]_vars


\* ----------------------------------------------------------------- claims

\* The step in which stageTriggered(i) starts: the worker of stage i leaves
\* the position before the callback.
Reports(i) == wpc[i] = "cb" /\ wpc'[i] # "cb"

\* C1: a completion report from a stage that is not the driver's current
\* stage sets the driver to Failed and calls Arm on no stage.
C1_OutOfOrderReportFails ==
    [][\A i \in Stages :
         (Reports(i) /\ currentStage # i)
            => (dState' = "Failed" /\ ev'.armed = {})]_vars

\* Stage 1 reported while the armed driver was waiting for stage 0.
C1_Witness ==
    /\ ev.op = "stageTriggered"
    /\ ev.by = 1
    /\ ev.seen = <<"Armed", 0>>
    /\ dState = "Failed"
    /\ wpc[1] = "ts"

\* The state stageTriggered(i) expects of an in-order report.
InOrder(i) ==
    /\ currentStage = i
    /\ dState = (IF i = 0 THEN "Armed" ELSE "Active")

\* C2: an in-order report of stage i arms stage i+1 once and makes the
\* driver (Active, i+1); the report of the last stage arms nothing and makes
\* the driver (Done, N) with the completion callback invoked.
C2_InOrderReportsComplete ==
    [][\A i \in Stages :
         /\ (Reports(i) /\ InOrder(i)) =>
               /\ wStage'[i] = i + 1
               /\ IF i + 1 < NStages
                  THEN ev'.armed = {i + 1} /\ wState'[i] = "Active"
                       /\ wpc'[i] = "armpin"
                  ELSE ev'.armed = {} /\ wState'[i] = "Done"
                       /\ wpc'[i] = "set"
         /\ (wpc[i] = "set" /\ wpc'[i] # "set") =>
               /\ dState' = wState[i]
               /\ currentStage' = wStage[i]
               /\ (wState[i] = "Done") = (ev'.doneCb # <<>>)
         /\ (ev'.by = i /\ ev'.armed # {}) => wpc[i] = "cb"]_vars

\* The last stage's in-order report completed the sequence.
C2_Witness ==
    /\ ev.op = "stageTriggered"
    /\ ev.by = NStages - 1
    /\ ev.doneCb # <<>>
    /\ dState = "Done"
    /\ currentStage = NStages
    /\ \A i \in Stages : sState[i] \in {"Active", "Done"}

\* C3 (as claimed): when the completion callback is invoked, its array holds
\* for every stage the timestamp that stage passed to its callback.
C3_DoneSeesEveryTimestamp ==
    ev.doneCb # <<>> =>
        \A i \in Stages : ev.doneCb[1][i] = wWhen[i]

\* The step in which the external caller calls MassDriver.Arm().
CallsArm == epc = "idle" /\ ev'.op = "Arm" /\ ev'.by = -1

\* C4: Arm() on a driver that is not Idle returns ErrDriverBusy, leaves the
\* driver's state and current index unchanged and calls neither Reset nor
\* Arm on any stage.
C4_ArmBusyRejected ==
    [][(CallsArm /\ dState # "Idle") =>
          /\ ev'.ret = "ErrDriverBusy"
          /\ UNCHANGED <<dState, currentStage>>
          /\ ev'.reset = {} /\ ev'.armed = {}
          /\ UNCHANGED <<stageVars, chanVars>>]_vars

\* Arm() was rejected on a driver that had completed its sequence.
C4_Witness ==
    /\ ev.op = "Arm"
    /\ ev.ret = "ErrDriverBusy"
    /\ dState = "Done"

\* C5 (as claimed): once the driver is Failed it stays Failed, and no stage
\* is armed, until Reset() or Abort().
C5_FailedFrozen ==
    [][dState = "Failed" =>
          \/ ev'.op \in {"Reset", "Abort"}
          \/ dState' = "Failed" /\ ev'.armed = {}]_vars

\* C6 (as claimed): a step of stageTriggered that makes the driver Failed
\* invokes the error callback.
C6_FailureReported ==
    [][\A i \in Stages :
         (ev'.op = "stageTriggered" /\ ev'.by = i /\ dState' = "Failed"
            /\ (Reports(i) \/ wpc[i] = "set")
            /\ dState # "Failed")
            => ev'.errCb # <<>>]_vars

\* C7: the driver arms a stage j > 0 only in the completion callback of
\* stage j-1, and that callback starts only when the worker of stage j-1 has
\* left PulseTrain.Run after its last segment.
C7_StagesSerialized ==
    [][\A j \in Stages :
         /\ (j > 0 /\ j \in ev'.armed) =>
               (ev'.op = "stageTriggered" /\ ev'.by = j - 1 /\ Reports(j - 1))
         /\ (wpc'[j] = "cb" /\ wpc[j] # "cb") =>
               (wpc[j] = "run" /\ wseg[j] = Len(Shape(j)))]_vars

\* Stage 1 was armed by the completion callback of stage 0.
C7_Witness ==
    /\ ev.op = "stageTriggered"
    /\ ev.by = 0
    /\ ev.armed = {1}
    /\ sState[1] = "Armed"
    /\ triggerEnd[0] # 0

\* The step in which Reset() or Abort() of the driver returns.
Returned == ev.op \in {"Reset", "Abort"} /\ ev.ret = "nil"

\* C8 (as claimed): when Reset() or Abort() returns, every stage was Reset,
\* the driver is (Idle, -1) and Arm() would be accepted.
C8_ResetLeavesIdle ==
    Returned =>
        /\ eReset = Stages
        /\ dState = "Idle" /\ currentStage = -1
        /\ ~ArmBusy

\* C9: the worker enters PulseTrain.Run only from its check having seen the
\* state Armed, and at most one run starts per Arm() of the stage.
C9_OneRunPerArm ==
    /\ [](\A i \in Stages : fired[i] <= 1)
    /\ [][\A i \in Stages :
            /\ (i \in ev'.ran) => wpc[i] = "setActive"
            /\ (wpc'[i] = "setActive" /\ wpc[i] # "setActive") =>
                  (wpc[i] = "check" /\ sState[i] = "Armed")]_vars

\* A second signal was consumed after the stage's run had started: the
\* worker skipped it.
C9_Witness ==
    \E i \in Stages :
        /\ fired[i] = 1
        /\ ev.op = "handlePulse" /\ ev.by = i
        /\ wpc[i] = "wait"
        /\ sState[i] = "Done"
        /\ t[i] = 0
        /\ senseStart[i] # 0 /\ senseEnd[i] = 0

\* C10 (as claimed): senseStart and senseEnd are each stored at most once
\* between two resets of the stage: a store finds the field still zero.
C10_SenseWrittenOnce ==
    [][\A i \in Stages :
         /\ (<<"senseStart", i>> \in ev'.wrote) => senseStart[i] = 0
         /\ (<<"senseEnd", i>> \in ev'.wrote) => senseEnd[i] = 0]_vars

\* C11 (as claimed): handleInterrupt never blocks in its send.
C11_HandlerNeverBlocks == \A i \in Stages : ~IrqParked(i)

\* C12 (as claimed): once Abort was called during a run of PulseTrain.Run,
\* that run drives the trigger pin high no more, and the pin is low when the
\* run returns.
C12_AbortStopsRun ==
    [][\A i \in Stages :
         i \in aborted =>
            /\ ~(triggerPin'[i] /\ ~triggerPin[i])
            /\ (wpc[i] = "run" /\ wpc'[i] = "cb") => ~triggerPin'[i]]_vars

\* C13: an un-aborted Run of the shape [q1,a1,...,qk,ak] has, when it
\* returns, driven the pin high exactly k times, the j-th pulse lasting aj
\* after a quiet period qj, left the pin low, and returns the clock value
\* after the first quiet segment.
C13_RunFollowsShape ==
    (ev.op = "Run" /\ ev.ret = "triggerStart") =>
        /\ Len(pt.highs) * 2 = Len(Durations)
        /\ \A j \in 1 .. Len(pt.highs) :
              pt.highs[j] = <<Durations[2 * j - 1], Durations[2 * j]>>
        /\ ~pt.pin
        /\ pt.triggerStart = pt.start + Durations[1]

\* A run of a shape of two pulses has returned.
C13_Witness ==
    /\ ev.op = "Run"
    /\ ev.ret = "triggerStart"
    /\ pt.triggerStart = 3
    /\ pt.start = 1
    /\ Durations = <<2, 1, 1, 2>>
    /\ pt.highs = <<<<2, 1>>, <<1, 2>>>>
    /\ ~pt.pin

\* C14: SetShape fails with ErrInvalidPulseTrain exactly for the sequences
\* of fewer than 2 elements or of odd length; a failure leaves the shape as
\* it was, and after a success Shape() is the new sequence.
C14_SetShapeValidates ==
    [][ev'.op = "SetShape" =>
         /\ ev'.ret \in {"nil", "ErrInvalidPulseTrain"}
         /\ (ev'.ret = "ErrInvalidPulseTrain") <=>
               (Len(pt'.arg) < 2 \/ Len(pt'.arg) % 2 # 0)
         /\ (ev'.ret = "ErrInvalidPulseTrain") => Durations' = Durations
         /\ (ev'.ret = "nil") => Durations' = pt'.arg]_vars

\* SetShape of a one-element sequence was refused, the shape of two pulses
\* is still there.
C14_Witness ==
    /\ ev.op = "SetShape"
    /\ ev.ret = "ErrInvalidPulseTrain"
    /\ Len(pt.arg) = 1
    /\ Len(Durations) = 4

\* Arm() of the stage, called on the stage as Reset() leaves it, has just
\* found the sense pin occupied and has stored senseStart and sent the
\* signal; n operations of the stage were called so far.
ArmedOccupied(n) ==
    /\ ev.op = "Stage.Arm"
    /\ <<"senseStart", Lone>> \in ev.wrote
    /\ armedFrom[Lone] = "Idle"
    /\ senseEnd[Lone] = 0 /\ triggerStart[Lone] = 0 /\ triggerEnd[Lone] = 0
    /\ ops = n

\* The worker has run the pulse train since that Arm() and has called
\* onComplete.
CompletedSinceArm == ev.op = "onComplete" /\ fired[Lone] >= 1

\* C15 (as claimed): Arm() on a reset stage whose sense pin reads occupied
\* stores a non-zero senseStart and signals the worker, and, the worker
\* being scheduled fairly, the pulse train is then run and onComplete is
\* called, unless the caller calls another operation of the stage first.
C15_ArmOccupiedCompletes ==
    /\ [](\A n \in 0 .. MaxStageOps :
            ArmedOccupied(n) => (senseStart[Lone] # 0 /\ t[Lone] = 1))
    /\ \A n \in 0 .. MaxStageOps :
          ArmedOccupied(n) ~> (CompletedSinceArm \/ ops > n)

\* C16: under every interleaving of Arm(), Reset(), interrupts and the worker
\* the stage's state follows Idle -> Armed -> Active -> Done: Active is
\* entered only from Armed, Done is entered only from Active (a stage that
\* was reset to Idle never becomes Done without a new Arm()), and the stage
\* never takes the value Failed.
C16_StateOrder ==
    [][/\ (sState'[Lone] = "Active" /\ sState[Lone] # "Active") => sState[Lone] = "Armed"
       /\ (sState'[Lone] = "Done" /\ sState[Lone] # "Done") => sState[Lone] = "Active"
       /\ sState'[Lone] # "Failed"]_vars

\* The number of non-zero timestamps among the chronograph's four.
NonZero ==
    Cardinality({k \in 1 .. 4 :
        <<chr.timeStartA, chr.timeEndA, chr.timeStartB, chr.timeEndB>>[k] # 0})

\* C17: IsValid() is true exactly when all four timestamps are non-zero or
\* all four are zero; with one, two or three non-zero entries it is false.
C17_IsValidAllOrNone ==
    ev.op = "IsValid" =>
        /\ ev.ret \in {"true", "false"}
        /\ (ev.ret = "true") <=> (NonZero = 4 \/ NonZero = 0)
        /\ NonZero \in 1 .. 3 => ev.ret = "false"

C17_Witness ==
    /\ ev.op = "IsValid"
    /\ ev.ret = "false"
    /\ chr.timeStartA = 1 /\ chr.timeEndA = 2 /\ chr.timeStartB = 2
    /\ chr.timeEndB = 0

\* A step that is a call of Configure of the stage or of the chronograph.
Configures == ev'.op \in {"Stage.Configure", "Chronograph.Configure"}

InputModes == {"PinInput", "PinInputPullup", "PinInputPulldown"}

\* A Configure that returned one of the two errors configured no pin,
\* started no worker and installed no handler.
RejectedTouchesNothing ==
    ev'.ret \in {"ErrInvalidPinMode", "ErrInvalidPinChange"} =>
        /\ cfg' = cfg
        /\ chr' = chr

\* C18: Configure of a stage and of a chronograph returns ErrInvalidPinMode
\* for any mode other than plain, pull-up or pull-down input, and
\* ErrInvalidPinChange for the toggle edge mode given with one of those
\* three modes; when either error is returned no pin is configured, no
\* worker is started and no interrupt handler is installed.
C18_ConfigureRejects ==
    [][Configures =>
         /\ ev'.seen[1] \notin InputModes => ev'.ret = "ErrInvalidPinMode"
         /\ (ev'.seen[2] = "PinToggle" /\ ev'.seen[1] \in InputModes)
               => ev'.ret = "ErrInvalidPinChange"
         /\ RejectedTouchesNothing]_vars

C18_Witness ==
    /\ ev.op = "Stage.Configure"
    /\ ev.seen = <<"PinOutput", "PinToggle">>
    /\ ev.ret = "ErrInvalidPinMode"
    /\ cfg = NewStageConfig

\* C18 as stated: ErrInvalidPinChange for the toggle edge mode, whatever
\* the mode.
C18_AsStated ==
    [][Configures =>
         /\ ev'.seen[1] \notin InputModes => ev'.ret = "ErrInvalidPinMode"
         /\ ev'.seen[2] = "PinToggle" => ev'.ret = "ErrInvalidPinChange"
         /\ RejectedTouchesNothing]_vars

\* A step that is a call of Chronograph.Configure with a valid mode and a
\* valid edge mode.
ConfiguresChrono ==
    /\ ev'.op = "Chronograph.Configure"
    /\ ev'.seen[1] \in InputModes
    /\ ev'.seen[2] # "PinToggle"

\* A sense pin reads the occupied polarity of the edge mode the step's
\* Configure was given.
ReadsOccupied ==
    LET occupied == (ev'.seen[2] = "PinRising") IN
    chr.a = occupied \/ chr.b = occupied

\* The step is an edge on a sense pin.
EdgeStep == ev'.op \in {"handleA", "handleB", "edgeA", "edgeB"}

\* The step stores no timestamp and does not invoke the callback.
Inert ==
    /\ chr'.timeStartA = chr.timeStartA /\ chr'.timeEndA = chr.timeEndA
    /\ chr'.timeStartB = chr.timeStartB /\ chr'.timeEndB = chr.timeEndB
    /\ chr'.calls = chr.calls

\* C19: Chronograph.Configure, given a valid mode and edge mode, returns
\* ErrSensePin when either sense pin already reads the occupied polarity,
\* and in that case installs no handler on either pin; on a chronograph no
\* earlier Configure installed handlers on, no later edge writes a timestamp
\* or invokes the velocity callback.
C19_SensePinRejected ==
    [][/\ ConfiguresChrono =>
            /\ ReadsOccupied <=> ev'.ret = "ErrSensePin"
            /\ ev'.ret = "ErrSensePin" =>
                  chr'.irqA = chr.irqA /\ chr'.irqB = chr.irqB
       /\ (EdgeStep /\ chr.rejected /\ ~chr.irqA /\ ~chr.irqB) => Inert]_vars

C19_Witness ==
    /\ ev.op = "edgeB"
    /\ chr.rejected
    /\ chr.val /\ chr.modeA = "PinInputPullup"
    /\ ~chr.irqA /\ ~chr.irqB
    /\ chr.clock = 2
    /\ chr.timeStartA = 0 /\ chr.timeEndA = 0
    /\ chr.timeStartB = 0 /\ chr.timeEndB = 0
    /\ chr.calls = 0

\* C19 as stated: after a Configure that returned ErrSensePin no edge
\* writes a timestamp or invokes the callback, whatever came before.
C19_AsStated ==
    [][/\ ConfiguresChrono =>
            /\ ReadsOccupied <=> ev'.ret = "ErrSensePin"
            /\ ev'.ret = "ErrSensePin" =>
                  chr'.irqA = chr.irqA /\ chr'.irqB = chr.irqB
       /\ (EdgeStep /\ chr.rejected) => Inert]_vars

\* The step is a run of handleA or of handleB that got past the handler's
\* first test and so stored a timestamp.
Records ==
    \/ ev'.op = "handleA" /\ (chr.timeStartA = 0 \/ chr.timeEndA = 0)
    \/ ev'.op = "handleB" /\ (chr.timeStartB = 0 \/ chr.timeEndB = 0)

\* The step invokes the velocity callback, once.
Invokes == chr'.calls = chr.calls + 1

\* C20: after a handler has recorded an edge the velocity callback is
\* invoked if and only if neither exit timestamp is zero and a callback is
\* set; in the passage A-enter, A-exit, B-enter, B-exit it is invoked on
\* the B-exit event and on no earlier one.
C20_CallbackOnBothExits ==
    [][/\ Records =>
            /\ Invokes <=>
                  (chr'.timeEndA # 0 /\ chr'.timeEndB # 0 /\ chr.callback)
            /\ ~Invokes => chr'.calls = chr.calls
            /\ chr'.timeEndB = 0 => ~Invokes
            /\ ( /\ chr.callback
                 /\ chr.timeStartA # 0 /\ chr.timeEndA # 0
                 /\ chr.timeStartB # 0 /\ chr.timeEndB = 0
                 /\ chr'.timeEndB # 0 ) => Invokes
       /\ (EdgeStep /\ ~Records) => chr'.calls = chr.calls]_vars

C20_Witness ==
    /\ ev.op = "handleB"
    /\ chr.callback
    /\ chr.timeStartA = 1 /\ chr.timeEndA = 2
    /\ chr.timeStartB = 3 /\ chr.timeEndB = 4
    /\ chr.calls = 1

\* C21: for all positive durations wanted and actual,
\* SetWaitCalibration(wanted, actual) stores K and M such that
\* actual * K = wanted * M and gcd(K, M) = 1.
C21_CalibrationRatio ==
    ev.op = "SetWaitCalibration" =>
        /\ wc.actual * wc.K = wc.wanted * wc.M
        /\ \A g \in 2 .. MaxDur : ~(wc.K % g = 0 /\ wc.M % g = 0)

\* C22: on the simulated clock, after CalibrateWait(d0, n) with d0 > 0 and
\* n > 0, WaitCalibrated(d) takes a duration that differs from d by less
\* than the cost of one iteration, for every d >= 0 of the range.
C22_WaitWithinOneIteration ==
    ev.op = "WaitCalibrated" =>
        /\ ev.ret = "nil"
        /\ Abs(ev.seen[2] - ev.seen[1]) < ticksToNanoseconds(wc.cost)

\* C29: while a stage's state is Idle a sense-pin edge interrupt has no
\* effect: it stores neither senseStart nor senseEnd, sends no signal to the
\* worker and does not call Abort on the pulse train.
C29_IdleIgnoresEdges ==
    [][\A i \in Stages :
         (ev'.op = "handleInterrupt" /\ ev'.by = i /\ sState[i] = "Idle") =>
            /\ senseStart' = senseStart /\ senseEnd' = senseEnd
            /\ t' = t /\ sendq' = sendq
            /\ triggerPin' = triggerPin /\ aborted' = aborted
            /\ shapeR' = shapeR
            /\ ev'.wrote = {}]_vars

C29_Witness ==
    /\ ev.op = "handleInterrupt" /\ ev.by = Lone
    /\ sState[Lone] = "Idle"
    /\ ops = 2 /\ epc = "idle" /\ Lone \in eReset
    /\ sensePin[Lone]
    /\ senseStart[Lone] = 0 /\ senseEnd[Lone] = 0
    /\ t[Lone] = 0

\* C30: when Reset() of a stage returns and no interrupt ran during it, the
\* state is Idle, the four timestamps are zero and the signal slot is
\* empty, and a signal that was pending before the Reset() does not start
\* a pulse train after the next Arm(): the worker does not pass its test
\* of the state with a signal it received before that Reset().
C30_ResetClears ==
    [][/\ (epc = "reset" /\ epc' = "idle" /\ ev.op = "Stage.Reset") =>
            /\ sState'[Lone] = "Idle"
            /\ senseStart'[Lone] = 0 /\ senseEnd'[Lone] = 0
            /\ triggerStart'[Lone] = 0 /\ triggerEnd'[Lone] = 0
            /\ t'[Lone] = 0
       /\ ~( /\ Lone \in carried
             /\ armedFrom[Lone] = "Idle"
             /\ wpc[Lone] = "check" /\ wpc'[Lone] = "setActive" )]_vars

\* The integer average readVoltages is to feed to the curve of channel i:
\* the sum of the codes the channel returned in the last read, divided by
\* the sample count.
Average(i) == SumSeq(vm.reads[i]) \div vm.samples

\* The last read returned one voltage per channel, each the channel's curve
\* applied to the average of exactly `samples` reads of the channel.
ReturnedVoltages ==
    /\ ev.ret = "nil"
    /\ Len(vm.out) = Len(vm.adcs)
    /\ \A i \in 1 .. Len(vm.adcs) :
           /\ Len(vm.reads[i]) = vm.samples
           /\ vm.out[i] = ConvertLinear(vm.approximators[i], Average(i))

\* C23: NewVoltageMeter returns ErrPinApproximatorMismatch and no meter
\* exactly when the number of ADC pins differs from the number of
\* approximators; otherwise it returns a meter whose channel i is pin i
\* with approximator i.
C23_MismatchOrPaired ==
    ev.op = "NewVoltageMeter" =>
        LET adcPins == ev.seen[1]
            approximators == ev.seen[2]
        IN  /\ (Len(adcPins) # Len(approximators)) <=>
                   (ev.ret = "ErrPinApproximatorMismatch" /\ ~vm.made)
            /\ Len(adcPins) = Len(approximators) =>
                   /\ ev.ret = "nil"
                   /\ vm.made
                   /\ Len(vm.adcs) = Len(adcPins)
                   /\ \A i \in 1 .. Len(adcPins) :
                          /\ vm.adcs[i] = adcPins[i]
                          /\ vm.approximators[i] = approximators[i]

\* A meter of two channels with different curves was made.
C23_Witness ==
    /\ ev.op = "NewVoltageMeter"
    /\ vm.made
    /\ Len(vm.adcs) = 2
    /\ vm.adcs[1] # vm.adcs[2]
    /\ vm.approximators[1] # vm.approximators[2]

\* C24: ReadVoltages(buf) with a buffer of as many elements as there are
\* channels and samples >= 1 returns for every channel i curve i applied
\* to the integer average of exactly `samples` reads of channel i, whatever
\* the earlier reads left in the accumulator.
C24_AveragedVoltages ==
    (/\ ev.op = "ReadVoltages"
     /\ ~ev.seen[1]
     /\ ev.seen[2] = Len(vm.adcs)
     /\ vm.samples >= 1)
        => ReturnedVoltages

\* The second read of a meter of two channels with different curves and two
\* samples, whose averages are truncated and differ between the channels.
C24_Witness ==
    /\ ev.op = "ReadVoltages"
    /\ ~ev.seen[1]
    /\ ev.seen[2] = 2
    /\ Len(vm.adcs) = 2
    /\ vm.samples = 2
    /\ vm.calls = 2
    /\ vm.approximators[1] # vm.approximators[2]
    /\ SumSeq(vm.reads[1]) = 1
    /\ SumSeq(vm.reads[2]) = 2
    /\ ReturnedVoltages

\* C25: ReadVoltages(nil) and Voltages() on a meter of at least one channel
\* (and samples >= 1) return one converted voltage per channel without
\* failing.
C25_InternalBuffer ==
    (/\ \/ ev.op = "ReadVoltages" /\ ev.seen[1]
        \/ ev.op = "Voltages"
     /\ Len(vm.adcs) >= 1
     /\ vm.samples >= 1)
        => ReturnedVoltages

\* C26: after a voltage read that returned, Raw() holds for every channel
\* the averaged code of that read, the code fed to the channel's curve.
C26_RawIsAverage ==
    (/\ ev.op \in {"ReadVoltages", "Voltages"}
     /\ ev.ret = "nil"
     /\ vm.samples >= 1)
        => /\ Len(Raw) = Len(vm.adcs)
           /\ \A i \in 1 .. Len(vm.adcs) : Raw[i] = Average(i)

\* C27: for the curve fitted from (0,0), (2048,5.0), (4095,10.0), of either
\* type, every code ConvertInverse(Convert(code)) can return for a code in
\* 0..4095 is within 1 of that code.
C27_RoundTripWithinOne ==
    qa.pc = "inverted" => qa.back - qa.code \in {-1, 0, 1}

C27_Witness ==
    /\ qa.pc = "inverted" /\ qa.curve.T = "float32"
    /\ qa.code = MaxAdcCode /\ qa.back = MaxAdcCode
    /\ qa.volts.k = "fin"

\* R*R*C < 4*L in exact arithmetic, for finite positive parameters
ExactlyUnderdamped(cp) ==
    CmpAbs([m |-> BMul(BMul(cp.R.m, cp.R.m), cp.C.m), e |-> 2 * cp.R.e + cp.C.e],
           [m |-> cp.L.m, e |-> cp.L.e + 2]) < 0

\* C28: for positive L and C, DampedFrequency returns a positive value and
\* no error exactly when R < 2*sqrt(L/C), that is R*R*C < 4*L, and fails
\* with the not-underdamped error otherwise; and its decision is the one
\* TotalMagneticEnergy makes for the same parameters.
C28_UnderdampedDecision ==
    /\ lcr.damped.called =>
           IF ExactlyUnderdamped(lcr.params)
           THEN lcr.damped.err = "nil" /\ Gt(lcr.damped.value, Zero(0))
           ELSE lcr.damped.err = "NotUnderdamped"
    /\ lcr.damped.called /\ lcr.energy.called =>
           (lcr.damped.err = "nil" <=> lcr.energy.err = "nil")

\* All four timestamps of c are set.
Complete(c) ==
    c.timeStartA # 0 /\ c.timeEndA # 0 /\ c.timeStartB # 0 /\ c.timeEndB # 0

\* The step is the return of Chronograph.Reset().
ResetReturns == ev'.op = "Chronograph.Reset" /\ ev'.ret = "nil"

\* C31: an edge on a gate whose two timestamps are both set stores no
\* timestamp and does not invoke the callback; a complete measurement is
\* changed by no step but those of Reset(); and when Reset() returns all
\* four timestamps are zero and IsValid() is true.
C31_FullGateUntilReset ==
    [][/\ (ev'.op = "handleA" /\ chr.timeStartA # 0 /\ chr.timeEndA # 0) => Inert
       /\ (ev'.op = "handleB" /\ chr.timeStartB # 0 /\ chr.timeEndB # 0) => Inert
       /\ (Complete(chr) /\ ev'.op # "Chronograph.Reset") => Inert
       /\ ResetReturns =>
             /\ chr'.timeStartA = 0 /\ chr'.timeEndA = 0
             /\ chr'.timeStartB = 0 /\ chr'.timeEndB = 0
             /\ IsValid(chr')]_vars

\* The position in the log of the call of Arm() of stage i, 0 when there
\* is none
ArmAt(log, i) ==
    IF \E k \in 1 .. Len(log) : log[k][1] = "Arm" /\ log[k][2] = i
    THEN CHOOSE k \in 1 .. Len(log) : log[k][1] = "Arm" /\ log[k][2] = i
    ELSE 0

\* The step is a call of the driver's Arm() on an Idle driver.
ArmsIdle == md.made /\ md'.calls = md.calls + 1 /\ md'.op = "Arm" /\ md.state = "Idle"

\* C32: Arm() on an Idle driver calls Arm() of stage 0.  When that returns
\* an error, Arm() invokes the error callback (when one was given) with the
\* stage index 0 and that error, after the stage's Arm(), and returns the
\* same error; when it returns nil, Arm() returns nil, the driver is Armed
\* with the current index 0, and Reset() of every stage was called before
\* Arm() of stage 0.
C32_ArmPropagates ==
    [][ArmsIdle =>
          LET log == md'.log
              at == ArmAt(log, 0)
          IN  /\ at > 0
              /\ md'.ret = log[at][3]
              /\ log[at][3] # "nil" =>
                    /\ md.errorCallback =>
                          /\ at < Len(log)
                          /\ log[at + 1] = <<"errorCallback", 0, log[at][3]>>
                    /\ \A k \in 1 .. Len(log) :
                          log[k][1] = "errorCallback" => k = at + 1
              /\ log[at][3] = "nil" =>
                    /\ md'.state = "Armed" /\ md'.currentStage = 0
                    /\ \A k \in 1 .. Len(log) : log[k][1] # "errorCallback"
              /\ \A i \in Stages :
                    \E k \in 1 .. at - 1 : log[k] = <<"Reset", i>>]_vars

C32_Witness ==
    /\ md.made /\ md.op = "Arm" /\ md.ret = "ErrStage" /\ md.errorCallback
    /\ md.log = <<<<"Reset", 0>>, <<"Reset", 1>>, <<"Arm", 0, "ErrStage">>,
                  <<"errorCallback", 0, "ErrStage">>>>

\* ---------------------------------------------------------------- C33

\* The (state, current index) pairs the states Idle, Armed, Active and Done
\* go with; Failed goes with any index.
Consistent(state, stage) ==
    /\ state = "Idle" => stage = -1
    /\ state = "Armed" => stage = 0
    /\ state = "Active" => stage \in 1 .. NStages - 1
    /\ state = "Done" => stage = NStages

\* No method of the MassDriver is mid-execution.
Quiescent == \A c \in Callers : dw.call[c].at = "idle"

\* C33: whenever no MassDriver method is mid-execution the pair
\* (state, current index) is consistent: Idle goes with -1, Armed with 0,
\* Active with an index in 1 .. N-1 and Done with N.
C33_StateIndexConsistent ==
    (dw.made /\ Quiescent) => Consistent(dw.state, dw.currentStage)

\* ---------------------------------------------------------------- C34

\* C34: between the return of a successful Arm() of the driver and the next
\* call of Reset() or Abort() the done callback is invoked at most once,
\* whatever completion reports the stages make.
C34_DoneAtMostOnce == dw.made => dw.dones <= 1

\* ---------------------------------------------------------------- C35

\* C35: when Reset() of the driver returns, every slot of the array of
\* completion timestamps is zero.
C35_ResetClearsTimestamps ==
    (ev.op = "Reset" /\ ev.ret = "nil") => \A i \in Stages : timestamps[i] = 0

\* ---------------------------------------------------------------- C36

\* C36: once Reset() or Abort() of the driver has returned with the driver
\* Idle, the driver stays Idle until the next Arm() is called: no report of
\* a stage worker moves it out of Idle.
C36_IdleUntilArm ==
    [][(epc = "idle" /\ dState = "Idle") => dState' = "Idle"]_vars

\* ---------------------------------------------------------------- C37

\* One firing sequence: the driver is armed and never reset or aborted, so
\* that stage i+1 is armed by stageTriggered(i) only and the stages are
\* sensed in index order.
NextSequence ==
    \/ DriverArmBusy
    \/ DriverArm
    \/ DriverArmReset
    \/ DriverArmSet
    \/ DriverArmSense
    \/ DriverArmReturn
    \/ \E i \in Stages : Edge(i)
    \/ \E i \in Stages : WRecv(i)
    \/ \E i \in Stages : WCheck(i)
    \/ \E i \in Stages : WSetActive(i)
    \/ \E i \in Stages : WRunSeg(i)
    \/ \E i \in Stages : WRunLow(i)
    \/ \E i \in Stages : WRunEnd(i)
    \/ \E i \in Stages : WCallback(i)
    \/ \E i \in Stages : WArmSense(i)
    \/ \E i \in Stages : WSet(i)
    \/ \E i \in Stages : WTimestamp(i)
    \/ \E i \in Stages : WSetDone(i)

SpecSequence == Init /\ [][NextSequence]_vars

\* C37: in a firing sequence the driver is never Failed, and when the worker
\* of a stage is about to report completion the driver's current index is the
\* index of that stage.
C37_InOrderNeverFailed ==
    /\ dState # "Failed"
    /\ \A i \in Stages : wpc[i] = "cb" => currentStage = i

\* ---------------------------------------------------------------- C38

\* C38: whenever the worker of a stage begins a run of the pulse train, the
\* sense-enter timestamp of the stage is non-zero (a sense event was recorded
\* since the stage's last Reset(), which zeroes it).
C38_RunHasSenseEvent ==
    [][\A i \in Stages : i \in ev'.ran => senseStart[i] # 0]_vars

\* ---------------------------------------------------------------- C39

\* C39: whenever the velocity callback is invoked all four timestamps are
\* non-zero, for every sequence of edges and Reset() calls.
C39_CallbackOnCompleteOnly == [][Invokes => Complete(chr')]_vars

\* ---------------------------------------------------------------- C40

\* C40: the line fitted from two calibration points with distinct codes,
\* given in either order, reproduces both points: Convert(code1) = v1 and
\* Convert(code2) = v2.
C40_FitReproducesPoints ==
    la.pc = "converted" =>
        Eq(la.out1, la.voltage1) /\ Eq(la.out2, la.voltage2)

====
